---- MODULE Spec2Model ----
(***************************************************************************)
(* Model of the BahojuBackend blog store: the Blog schema with its two     *)
(* pre('save') hooks (slug derivation and collision loop, publication      *)
(* stamp, read time) and the /api/blog routes that create, update, view    *)
(* and delete posts.                                                       *)
(*                                                                         *)
(* Strings are sequences of one-character strings, so that the regular     *)
(* expressions and template strings of the hook are modelled by what they  *)
(* do to the characters.                                                   *)
(***************************************************************************)
EXTENDS Integers, Sequences, FiniteSets, TLC

\* ------------------------------------------------------------- bounds

\* Request slots (requests that may be in flight at the same time).
MaxProcs == 2
\* Requests started in one behaviour.
MaxReqs == 2
\* Clock ticks in one behaviour.
MaxTicks == 1
\* First clock value (Date.now() is far above the loop bound in any real run).
Epoch0 == 1700
\* Longest title enumerated by the derivation specification.
MaxLen == 4

\* The loop bound of the slug loop: `if (counter > 1000)`.
MaxCounter == 1000
\* `const wordsPerMinute = 200`.
wordsPerMinute == 200
\* `isLength({ min: 5 })` of the title validators.
MinTitleLen == 5

\* ------------------------------------------------------ characters

LowerSeq == << "a","b","c","d","e","f","g","h","i","j","k","l","m",
               "n","o","p","q","r","s","t","u","v","w","x","y","z" >>
UpperSeq == << "A","B","C","D","E","F","G","H","I","J","K","L","M",
               "N","O","P","Q","R","S","T","U","V","W","X","Y","Z" >>
DigitSeq == << "0","1","2","3","4","5","6","7","8","9" >>

Range(s) == { s[i] : i \in DOMAIN s }

IsLower(c) == c \in Range(LowerSeq)
IsUpper(c) == c \in Range(UpperSeq)
IsDigit(c) == c \in Range(DigitSeq)
\* \s of a JavaScript regular expression, for the characters modelled.
WhiteSpace == {" ", "\t", "\n"}
IsSpace(c) == c \in WhiteSpace

\* String.prototype.toLowerCase, one character.
ToLowerChar(c) ==
  IF IsUpper(c) THEN LowerSeq[CHOOSE i \in DOMAIN UpperSeq : UpperSeq[i] = c]
  ELSE c

ToLowerCase(s) == [ i \in 1..Len(s) |-> ToLowerChar(s[i]) ]

\* The characters /[^a-zA-Z0-9 ]/g leaves in place.
KeptByStrip(c) == IsLower(c) \/ IsUpper(c) \/ IsDigit(c) \/ c = " "

\* Variant: the hyphen is left in place too, as /[^a-zA-Z0-9 -]/g would.
StripSpecialKeepHyphen(s) == SelectSeq(s, LAMBDA c : KeptByStrip(c) \/ c = "-")

\* .replace(/[^a-zA-Z0-9 ]/g, '')
StripSpecial(s) == SelectSeq(s, KeptByStrip)

\* .replace(/\s+/g, '-'): every maximal run of whitespace becomes one hyphen.
RECURSIVE SpacesToHyphenFrom(_, _)
SpacesToHyphenFrom(s, i) ==
  IF i > Len(s) THEN << >>
  ELSE IF IsSpace(s[i])
       THEN IF i > 1 /\ IsSpace(s[i-1])
            THEN SpacesToHyphenFrom(s, i + 1)
            ELSE << "-" >> \o SpacesToHyphenFrom(s, i + 1)
       ELSE << s[i] >> \o SpacesToHyphenFrom(s, i + 1)

SpacesToHyphen(s) == SpacesToHyphenFrom(s, 1)

\* s without its leading run of characters of the set cs.
RECURSIVE DropLeading(_, _)
DropLeading(s, cs) ==
  IF s # << >> /\ Head(s) \in cs THEN DropLeading(Tail(s), cs) ELSE s

\* s without its trailing run of characters of the set cs.
RECURSIVE DropTrailing(_, _)
DropTrailing(s, cs) ==
  IF s # << >> /\ s[Len(s)] \in cs
  THEN DropTrailing(SubSeq(s, 1, Len(s) - 1), cs)
  ELSE s

\* .replace(/^-+|-+$/g, '')
TrimHyphens(s) == DropTrailing(DropLeading(s, {"-"}), {"-"})

\* String.prototype.trim (also the schema's `trim: true` and the validators' .trim()).
Trim(s) == DropTrailing(DropLeading(s, WhiteSpace), WhiteSpace)

\* Number to decimal string, as a template string prints it.
RECURSIVE ToDigits(_)
ToDigits(n) ==
  IF n < 10 THEN << DigitSeq[n + 1] >>
  ELSE ToDigits(n \div 10) \o << DigitSeq[(n % 10) + 1] >>

\* Variant: the numbering of the candidates starts at 2.
SuffixedFromTwo(base, n) == base \o << "-" >> \o ToDigits(n + 1)

\* `${base}-${n}`
Suffixed(base, n) == base \o << "-" >> \o ToDigits(n)

\* Variant: a fixed token instead of one built from the clock.
FallbackFixed(t) == << "b","l","o","g","-","p","o","s","t" >>

\* `blog-post-${Date.now()}`
FallbackBase(t) == << "b","l","o","g","-","p","o","s","t" >> \o << "-" >> \o ToDigits(t)

\* The base slug the hook derives from a title at clock value t:
\*   if (this.title) baseSlug = title.toLowerCase().replace(..).replace(..).replace(..).trim();
\*   if (!baseSlug) baseSlug = `blog-post-${Date.now()}`;
SlugOfTitle(title) ==
  IF title # << >>
  THEN Trim(TrimHyphens(SpacesToHyphen(StripSpecial(ToLowerCase(title)))))
  ELSE << >>

DeriveBase(title, t) ==
  IF SlugOfTitle(title) # << >> THEN SlugOfTitle(title) ELSE FallbackBase(t)

\* this.content.split(/\s+/).length: a split on whitespace runs yields one more
\* piece than there are runs (leading and trailing runs give empty pieces).
SpaceRuns(s) ==
  Cardinality({ i \in 1..Len(s) : IsSpace(s[i]) /\ (i = 1 \/ ~IsSpace(s[i-1])) })

WordCount(content) == SpaceRuns(content) + 1

\* Variant: the quotient rounded down, plus one.
ComputeReadTimeFloorPlusOne(content) == (WordCount(content) \div wordsPerMinute) + 1

\* Math.ceil(wordCount / wordsPerMinute)
ComputeReadTime(content) ==
  (WordCount(content) + wordsPerMinute - 1) \div wordsPerMinute

\* ------------------------------------------------------------- inputs

Procs == 1..MaxProcs

Statuses == {"draft", "published", "archived"}

\* The category enum of the schema and of the POST validator.
Categories == {"Digital Marketing", "Software Development", "Cloud Computing",
               "Training", "Business Branding", "Technology", "Innovation",
               "General"}

\* publishedAt: null.
NoDate == 0

\* `isLength({ min: 50 })` of the content validators.
MinContentLen == 50
\* `maxlength: [200, ...]` of the title.
MaxTitleLen == 200
\* `readTime: { default: 5 }`.
DefaultReadTime == 5

\* A text of n one-letter words separated by single spaces.
Words(n) == [ i \in 1..(2 * n - 1) |-> IF i % 2 = 1 THEN "w" ELSE " " ]

TitleMyPost     == << "M","y"," ","P","o","s","t" >>
TitleMyPostBang == << "m","y"," "," ","p","o","s","t","!" >>
TitleNumbered   == << "M","y"," ","P","o","s","t"," ","1" >>
TitleSymbols    == << "!","!","!","!","!" >>
TitleShort      == << "P","o","s","t" >>

\* Titles a request may carry.
Titles == {TitleMyPost, TitleMyPostBang, TitleNumbered, TitleSymbols, TitleShort}

ContentLong  == Words(26)
ContentShort == Words(3)

\* Slugs a request may name (in the path of a view, in the body of an update).
SlugMyPost  == << "m","y","-","p","o","s","t" >>
SlugMyPost1 == << "m","y","-","p","o","s","t","-","1" >>
SlugRaw     == << "N","o"," ","W","a","y","!" >>

\* Bodies of POST /api/blog: title, content and category are checked by the
\* validators, status is optional.  (The excerpt, always sent valid here, the
\* author and the image fields play no part in the hooks.)
CreateBodies ==
  { [title |-> t, content |-> ContentLong, category |-> "General"] : t \in Titles }
  \cup { [title |-> t, content |-> ContentLong, category |-> "General",
          status |-> "published"] : t \in {TitleMyPost, TitleMyPostBang} }
  \cup { [title |-> TitleMyPost, content |-> ContentShort, category |-> "General"],
         [title |-> TitleMyPost, content |-> ContentLong, category |-> "Sports"] }

\* Bodies of PUT /api/blog/:id: every field is optional, and the whole body is
\* handed to findByIdAndUpdate.
UpdateBodies ==
  { [title |-> t] : t \in {TitleMyPost, TitleNumbered, TitleSymbols, TitleShort} }
  \cup { [status |-> st] : st \in Statuses }
  \cup { [slug |-> sl] : sl \in {SlugMyPost, SlugRaw} }
  \cup { [content |-> Words(30)], [content |-> ContentShort] }

Has(body, f) == f \in DOMAIN body

\* ------------------------------------------------------------- state

VARIABLES
  blogs,    \* the blogs collection: a function from _id to the stored document
  nextId,   \* the next fresh _id
  now,      \* the clock, Date.now()
  req,      \* per request slot: where the request is and its local variables
  resp,     \* per request slot: the answer of the last request finished
  reqs,     \* requests started so far
  shown,    \* the data of the last answer of a public read
  stats,        \* the stats collection, in insertion order
  subscribers,  \* the newsletters collection (subscribers), in insertion order
  posts,        \* the newsletterposts collection, in insertion order
  outbox,       \* the calls of sendEmail made so far, each with how it ended
  db            \* connectDB: its environment, its position and what it has tried

vars == << blogs, nextId, now, req, resp, reqs, shown,
           stats, subscribers, posts, outbox, db >>

\* The collections and the connection that the blog routes leave alone.
rest == << stats, subscribers, posts, outbox, db >>

\* process.env.MONGODB_URI / MONGODB_TEST when the variable is not set.
Undefined == "undefined"

\* 'mongodb://localhost:27017/bahoju-tech'
DefaultLocalURI == "mongodb://localhost:27017/bahoju-tech"

\* The value of `db` once connectDB has returned the Atlas connection at its first try.
DbServing ==
  [ pc |-> "connected", env |-> [MONGODB_URI |-> "atlas-a", MONGODB_TEST |-> Undefined],
    atlasURI |-> "atlas-a", localURI |-> DefaultLocalURI,
    mongoURI |-> "atlas-a", tried |-> << "atlas-a" >>, up |-> {"atlas-a"},
    handlers |-> FALSE, exitCode |-> -1 ]

\* The other collections empty and the database connected.
RestEmpty ==
  /\ stats = << >>
  /\ subscribers = << >>
  /\ posts = << >>
  /\ outbox = << >>
  /\ db = DbServing

NoDoc == [ id |-> 0, title |-> << >>, slug |-> << >>, status |-> "draft",
           publishedAt |-> NoDate, content |-> << >>, category |-> "General",
           readTime |-> DefaultReadTime, views |-> 0, featured |-> FALSE ]

\* No public read answered yet.
NothingShown == [ kind |-> "none", posts |-> {}, categories |-> {}, total |-> 0 ]

\* req.query of GET /api/blog with nothing in it (an absent parameter is falsy).
NoQuery == [ category |-> "", featured |-> "", page |-> 0, limit |-> 0 ]

\* `at` is the clock value at which the save of the slot began; `query` and `found` are
\* the query and the page of posts of a list request between its two reads.
IdleReq == [ pc |-> "idle", isNew |-> FALSE, doc |-> NoDoc, modified |-> {},
             baseSlug |-> << >>, slug |-> << >>, counter |-> 0, at |-> 0,
             query |-> NoQuery, found |-> {} ]

Ids == DOMAIN blogs

\* new Blog(data): the given fields, through the schema's setters, over its defaults.
NewBlog(id, body) ==
  [ id          |-> id,
    title       |-> Trim(body.title),
    slug        |-> << >>,
    status      |-> IF Has(body, "status") THEN body.status ELSE "draft",
    publishedAt |-> NoDate,
    content     |-> body.content,
    category    |-> body.category,
    readTime    |-> DefaultReadTime,
    views       |-> 0,
    featured    |-> IF Has(body, "featured") THEN body.featured ELSE FALSE ]

\* ------------------------------------------------------- the save hooks

\* The end of the first hook (publication stamp) and the second hook (read time),
\* run on the document d whose modified paths are m once the slug is settled:
\*   if (this.isModified('status') && this.status === 'published' && !this.publishedAt)
\*     this.publishedAt = new Date();
\*   if (this.isModified('content')) this.readTime = Math.ceil(wordCount / wordsPerMinute);
StampPublication(d, m, t) ==
  IF "status" \in m /\ d.status = "published" /\ d.publishedAt = NoDate
  THEN [d EXCEPT !.publishedAt = t]
  ELSE d

SetReadTime(d, m) ==
  IF "content" \in m THEN [d EXCEPT !.readTime = ComputeReadTime(d.content)] ELSE d

FinishHooks(d, m, t) == SetReadTime(StampPublication(d, m, t), m)

\* The paths the hooks have modified on the way from d to e.
Touched(d, e) ==
  { f \in {"slug", "publishedAt", "readTime"} : d[f] # e[f] }

\* `if (this.isModified('title') || !this.slug)`
NeedsSlug(d, m) == "title" \in m \/ d.slug = << >>

\* Variant: the probe does not exclude the document being saved.
ProbeHitAny(store, sl, self) == \E i \in DOMAIN store : store[i].slug = sl

\* findOne({ slug: slug, _id: { $ne: this._id } })
ProbeHit(store, sl, self) ==
  \E i \in DOMAIN store : store[i].slug = sl /\ i # self

\* Variants: the loop gives up one increment later, one increment earlier.
ExhaustedLate(c) == c > MaxCounter + 1
ExhaustedEarly(c) == c > MaxCounter - 1

\* `if (counter > 1000)`
Exhausted(c) == c > MaxCounter

\* doc.save() up to the first await: the slug branch is entered (base derived, first
\* candidate chosen, counter = 1) or skipped, in which case the hooks run to their end.
SaveBegin(p, d, m, fresh) ==
  IF NeedsSlug(d, m)
  THEN req' = [req EXCEPT ![p] =
                 [ pc |-> "probe", isNew |-> fresh, doc |-> d, modified |-> m,
                   baseSlug |-> DeriveBase(d.title, now),
                   slug |-> DeriveBase(d.title, now), counter |-> 1, at |-> now,
                   query |-> NoQuery, found |-> {} ]]
  ELSE req' = [req EXCEPT ![p] =
                 [ pc |-> "write", isNew |-> fresh,
                   doc |-> FinishHooks(d, m, now),
                   modified |-> m \cup Touched(d, FinishHooks(d, m, now)),
                   baseSlug |-> << >>, slug |-> << >>, counter |-> 0, at |-> now,
                   query |-> NoQuery, found |-> {} ]]

\* The request r once its loop has left with the slug sl and the counter at c, at
\* clock value t: this.slug = slug, then the rest of the hooks.
LeftLoop(r, sl, c, t) ==
  LET d == [r.doc EXCEPT !.slug = sl]
      e == FinishHooks(d, r.modified, t)
  IN [r EXCEPT !.pc = "write", !.slug = sl, !.counter = c, !.doc = e,
               !.modified = r.modified \cup Touched(r.doc, e)]

\* One turn of `while (true)` for the request r over the store: the probe, then either
\* the break or the next candidate, and after the 1000th increment the timestamp suffix.
Turn(r, store, t) ==
  IF ~ProbeHit(store, r.slug, r.doc.id)
  THEN LeftLoop(r, r.slug, r.counter, t)
  ELSE IF Exhausted(r.counter + 1)
       THEN LeftLoop(r, Suffixed(r.baseSlug, t), r.counter + 1, t)
       ELSE [r EXCEPT !.slug = Suffixed(r.baseSlug, r.counter),
                      !.counter = r.counter + 1]

\* One turn of the loop of slot p; other requests may run between two turns.
HookProbe(p) ==
  /\ req[p].pc = "probe"
  /\ req' = [req EXCEPT ![p] = Turn(req[p], blogs, now)]
  /\ UNCHANGED << blogs, nextId, now, resp, reqs, shown, rest >>

\* n turns of the loop, or fewer when it leaves earlier (in halves, to keep the
\* evaluation shallow).
RECURSIVE RunTurns(_, _, _, _)
RunTurns(r, store, t, n) ==
  IF n = 0 \/ r.pc # "probe" THEN r
  ELSE IF n = 1 THEN Turn(r, store, t)
  ELSE LET half == RunTurns(r, store, t, n \div 2)
       IN RunTurns(half, store, t, n - (n \div 2))

\* The turns of the loop up to its exit, over a store that does not change meanwhile:
\* the candidates probed are pairwise distinct, so one of the first N + 1 is unused in
\* a store of N posts and the loop has left after N + 1 turns.
RunLoop(r, store, t) == RunTurns(r, store, t, Cardinality(DOMAIN store) + 1)

\* The whole loop of slot p, when no other request runs during it.
HookLoop(p) ==
  /\ req[p].pc = "probe"
  /\ req' = [req EXCEPT ![p] = RunLoop(req[p], blogs, now)]
  /\ UNCHANGED << blogs, nextId, now, resp, reqs, shown, rest >>

\* The probe of slot p rejects (the store is unavailable): control passes to the
\* `catch (error)` of the hook.
ProbeThrows(p) ==
  /\ req[p].pc = "probe"
  /\ req' = [req EXCEPT ![p].pc = "caught"]
  /\ UNCHANGED << blogs, nextId, now, resp, reqs, shown, rest >>

\* Variant: the catch block goes on with the candidate at hand, as `next()` would.
AfterCatchSwallowed(r, t) == LeftLoop(r, r.slug, r.counter, t)

\* `catch (error) { next(error); }`: the save is abandoned with the error, nothing of
\* the request is left to run.
AfterCatch(r, t) == IdleReq

\* The catch block of the hook, then the `catch (error) { next(error); }` of the route
\* on the rejected save.
HookCatch(p) ==
  /\ req[p].pc = "caught"
  /\ req' = [req EXCEPT ![p] = AfterCatch(req[p], now)]
  /\ resp' = [resp EXCEPT ![p] = IF AfterCatch(req[p], now).pc = "idle"
                                 THEN "next(error)" ELSE @]
  /\ UNCHANGED << blogs, nextId, now, reqs, shown, rest >>

\* Variant: no unique index on slug.
UniqueViolationOff(store, sl, self) == FALSE
\* Variant: the index guards the updates of stored documents only, not the inserts.
UniqueViolationOnUpdatesOnly(store, sl, self) ==
  self \in DOMAIN store /\ \E i \in DOMAIN store : i # self /\ store[i].slug = sl

\* The unique index on slug: the store refuses a write that would give the document
\* `self` a slug another stored document already has.
UniqueViolation(store, sl, self) ==
  \E i \in DOMAIN store : i # self /\ store[i].slug = sl

\* The stored document after $set of the modified paths of d.
Merge(stored, d, m) ==
  [ f \in DOMAIN stored |-> IF f \in m THEN d[f] ELSE stored[f] ]

\* The write that ends save(): an insert for a new document, an update of the modified
\* paths for a stored one; then the route's answer.
Write(p) ==
  /\ req[p].pc = "write"
  /\ LET r == req[p]
         d == r.doc
     IN IF r.isNew
        THEN IF UniqueViolation(blogs, d.slug, d.id)
             THEN /\ resp' = [resp EXCEPT ![p] = "next(error)"]
                  /\ UNCHANGED blogs
             ELSE /\ blogs' = (d.id :> d) @@ blogs
                  /\ resp' = [resp EXCEPT ![p] = "201"]
        ELSE IF d.id \notin Ids
             THEN /\ resp' = [resp EXCEPT ![p] = "next(error)"]
                  /\ UNCHANGED blogs
             ELSE IF "slug" \in r.modified /\ UniqueViolation(blogs, d.slug, d.id)
                  THEN /\ resp' = [resp EXCEPT ![p] = "next(error)"]
                       /\ UNCHANGED blogs
                  ELSE /\ blogs' = [blogs EXCEPT ![d.id] = Merge(@, d, r.modified)]
                       /\ resp' = [resp EXCEPT ![p] = "200"]
  /\ req' = [req EXCEPT ![p] = IdleReq]
  /\ UNCHANGED << nextId, now, reqs, shown, rest >>

\* ------------------------------------------------------------- routes

Idle(p) == req[p].pc = "idle"

\* A new request takes the first free slot (slots are interchangeable).
Free(p) == Idle(p) /\ \A q \in Procs : q < p => ~Idle(q)

Started == reqs < MaxReqs

\* The POST validators: title (trimmed) of at least 5 characters, content (trimmed) of
\* at least 50, category one of the enum.
CreateValid(body) ==
  /\ Len(Trim(body.title)) >= MinTitleLen
  /\ Len(Trim(body.content)) >= MinContentLen
  /\ body.category \in Categories

\* The paths a new document built from body reports as modified.
NewModified(body) ==
  {"title", "content", "category"} \cup (IF Has(body, "status") THEN {"status"} ELSE {})

\* POST /api/blog: the validators, then Blog.create(blogData), whose save runs up to
\* the first probe.
CreateBlog(p, body) ==
  /\ Free(p) /\ Started
  /\ reqs' = reqs + 1
  /\ IF ~CreateValid(body)
     THEN /\ resp' = [resp EXCEPT ![p] = "400"]
          /\ UNCHANGED << req, nextId >>
     ELSE /\ SaveBegin(p, NewBlog(nextId, [body EXCEPT !.content = Trim(@)]),
                       NewModified(body), TRUE)
          /\ nextId' = nextId + 1
          /\ resp' = [resp EXCEPT ![p] = "none"]
  /\ UNCHANGED << blogs, now, shown, rest >>

\* The PUT validators: the fields present are checked, the absent ones are not.
UpdateValid(body) ==
  /\ Has(body, "title") => Len(Trim(body.title)) >= MinTitleLen
  /\ Has(body, "content") => Len(Trim(body.content)) >= MinContentLen

\* The update as the schema casts it: `trim` on the title, `lowercase` on the slug.
CastUpdate(body) ==
  [ f \in DOMAIN body |->
      IF f = "title" THEN Trim(body[f])
      ELSE IF f = "slug" THEN ToLowerCase(body[f])
      ELSE IF f = "content" THEN Trim(body[f])
      ELSE body[f] ]

\* { runValidators: true }: the schema's validators on the fields of the update (the
\* enums of category and status, the maxlength of the title).
SchemaValid(upd) ==
  /\ Has(upd, "category") => upd.category \in Categories
  /\ Has(upd, "status") => upd.status \in Statuses
  /\ Has(upd, "title") => Len(upd.title) <= MaxTitleLen

\* The stored document after $set of the fields of the cast update.
ApplyUpdate(stored, upd) ==
  [ f \in DOMAIN stored |-> IF f \in DOMAIN upd THEN upd[f] ELSE stored[f] ]

\* PUT /api/blog/:id: the validators, then Blog.findByIdAndUpdate(id, req.body,
\* { new: true, runValidators: true }), one atomic operation of the store that runs the
\* schema's validators on the update and no save hook.
UpdateBlog(p, id, body) ==
  /\ Free(p) /\ Started
  /\ reqs' = reqs + 1
  /\ IF ~UpdateValid(body)
     THEN /\ resp' = [resp EXCEPT ![p] = "400"]
          /\ UNCHANGED blogs
     ELSE IF ~SchemaValid(CastUpdate(body))
          THEN /\ resp' = [resp EXCEPT ![p] = "next(error)"]
               /\ UNCHANGED blogs
     ELSE IF id \notin Ids
          THEN /\ resp' = [resp EXCEPT ![p] = "404"]
               /\ UNCHANGED blogs
          ELSE LET upd == CastUpdate(body) IN
               IF Has(upd, "slug") /\ UniqueViolation(blogs, upd.slug, id)
               THEN /\ resp' = [resp EXCEPT ![p] = "next(error)"]
                    /\ UNCHANGED blogs
               ELSE /\ blogs' = [blogs EXCEPT ![id] = ApplyUpdate(@, upd)]
                    /\ resp' = [resp EXCEPT ![p] = "200"]
  /\ UNCHANGED << nextId, now, req, shown, rest >>

\* GET /api/blog/:slug: findOne({ slug, status: 'published' }); 404 when there is none,
\* else views += 1 and save(), which runs up to its write (or to its first probe).
ViewBlog(p, sl) ==
  /\ Free(p) /\ Started
  /\ reqs' = reqs + 1
  /\ LET found == { i \in Ids : blogs[i].slug = sl /\ blogs[i].status = "published" }
     IN IF found = {}
        THEN /\ resp' = [resp EXCEPT ![p] = "404"]
             /\ UNCHANGED req
        ELSE \E i \in found :
               /\ SaveBegin(p, [blogs[i] EXCEPT !.views = @ + 1], {"views"}, FALSE)
               /\ resp' = [resp EXCEPT ![p] = "none"]
  /\ UNCHANGED << blogs, nextId, now, shown, rest >>

\* DELETE /api/blog/:id, first half: findById; 404 when there is none.
DeleteFind(p, id) ==
  /\ Free(p) /\ Started
  /\ reqs' = reqs + 1
  /\ IF id \notin Ids
     THEN /\ resp' = [resp EXCEPT ![p] = "404"]
          /\ UNCHANGED req
     ELSE /\ req' = [req EXCEPT ![p] = [IdleReq EXCEPT !.pc = "delete", !.doc = blogs[id]]]
          /\ resp' = [resp EXCEPT ![p] = "none"]
  /\ UNCHANGED << blogs, nextId, now, shown, rest >>

\* Variant: the removal takes the other posts of the same category along.
DeleteOneCascading(store, id) ==
  IF id \in DOMAIN store
  THEN [ i \in { j \in DOMAIN store : store[j].category # store[id].category } |->
           store[i] ]
  ELSE store

\* blog.deleteOne(): the store without the document of that _id.
DeleteOne(store, id) == [ i \in DOMAIN store \ {id} |-> store[i] ]

\* DELETE /api/blog/:id, second half: blog.deleteOne() removes the document if it is
\* still stored.
DeleteCommit(p) ==
  /\ req[p].pc = "delete"
  /\ blogs' = DeleteOne(blogs, req[p].doc.id)
  /\ resp' = [resp EXCEPT ![p] = "200"]
  /\ req' = [req EXCEPT ![p] = IdleReq]
  /\ UNCHANGED << nextId, now, reqs, shown, rest >>

\* The clock advances.
Tick ==
  /\ now < Epoch0 + MaxTicks
  /\ now' = now + 1
  /\ UNCHANGED << blogs, nextId, req, resp, reqs, shown, rest >>

\* The slugs a view may ask for.
SlugParams == {SlugMyPost, SlugMyPost1}

Init ==
  /\ blogs = << >>
  /\ nextId = 1
  /\ now = Epoch0
  /\ req = [ p \in Procs |-> IdleReq ]
  /\ resp = [ p \in Procs |-> "none" ]
  /\ reqs = 0
  /\ shown = NothingShown
  /\ RestEmpty

Next ==
  \/ \E p \in Procs, body \in CreateBodies : CreateBlog(p, body)
  \/ \E p \in Procs, id \in 1..nextId, body \in UpdateBodies : UpdateBlog(p, id, body)
  \/ \E p \in Procs, sl \in SlugParams : ViewBlog(p, sl)
  \/ \E p \in Procs, id \in 1..nextId : DeleteFind(p, id)
  \/ \E p \in Procs : DeleteCommit(p)
  \/ \E p \in Procs : HookProbe(p)
  \/ \E p \in Procs : Write(p)
  \/ Tick

\* Requests of the routes in any interleaving.
Spec == Init /\ [][Next]_vars

\* ------------------------------------------- saves made on the model itself

AllIdle == \A p \in Procs : Idle(p)

\* A stored post is given the title t and saved: doc.title = t; doc.save().  The path
\* counts as modified when the (trimmed) value differs from the stored one.
RetitleBlog(p, id, t) ==
  /\ Free(p) /\ Started
  /\ id \in Ids
  /\ reqs' = reqs + 1
  /\ SaveBegin(p, [blogs[id] EXCEPT !.title = Trim(t)],
               IF Trim(t) # blogs[id].title THEN {"title"} ELSE {}, FALSE)
  /\ resp' = [resp EXCEPT ![p] = "none"]
  /\ UNCHANGED << blogs, nextId, now, shown, rest >>

\* Requests one after another: a request starts only when none is in flight.
NextSeq ==
  \/ AllIdle /\ \E p \in Procs, body \in CreateBodies : CreateBlog(p, body)
  \/ AllIdle /\ \E p \in Procs, id \in Ids, t \in Titles : RetitleBlog(p, id, t)
  \/ AllIdle /\ \E p \in Procs, id \in Ids : DeleteFind(p, id)
  \/ \E p \in Procs : DeleteCommit(p)
  \/ \E p \in Procs : HookProbe(p)
  \/ \E p \in Procs : Write(p)
  \/ Tick

SpecSeq == Init /\ [][NextSeq]_vars

\* Saves one after another over a store whose probes may fail.
NextFail ==
  \/ NextSeq
  \/ \E p \in Procs : ProbeThrows(p)
  \/ \E p \in Procs : HookCatch(p)

SpecFail == Init /\ [][NextFail]_vars

\* --------------------------------------- the admin routes on a populated store

\* The post that Blog.create(body) stores under the slug sl at clock value t.
Created(id, body, sl, t) ==
  FinishHooks([NewBlog(id, body) EXCEPT !.slug = sl], NewModified(body), t)

\* A text long enough for a read time of two minutes.
ContentTwoMinutes == Words(wordsPerMinute + 1)

\* Two posts created earlier: a draft, and one published at creation.
AdminSeeds ==
  ( 1 :> Created(1, [title |-> TitleMyPost, content |-> ContentLong,
                     category |-> "General"], SlugMyPost, Epoch0) )
  @@ ( 2 :> Created(2, [title |-> TitleNumbered, content |-> ContentTwoMinutes,
                        category |-> "General", status |-> "published"],
                    SlugMyPost1, Epoch0) )

InitAdmin ==
  /\ blogs = AdminSeeds
  /\ nextId = 3
  /\ now = Epoch0
  /\ req = [ p \in Procs |-> IdleReq ]
  /\ resp = [ p \in Procs |-> "none" ]
  /\ reqs = 0
  /\ shown = NothingShown
  /\ RestEmpty

\* Bodies of POST /api/blog: a draft, a post published at once, a title of four
\* characters once trimmed, a category outside the enum.
AdminCreateBodies ==
  { [title |-> TitleMyPost, content |-> ContentLong, category |-> "General"],
    [title |-> TitleMyPost, content |-> ContentLong, category |-> "Technology",
     status |-> "published"],
    [title |-> << " " >> \o TitleShort \o << " " >>, content |-> ContentLong,
     category |-> "General"],
    [title |-> TitleMyPost, content |-> ContentLong, category |-> "Sports"] }

\* Bodies of PUT /api/blog/:id: the status, the publication date, the content, the
\* title and the category alone, and a body without fields.
AdminUpdateBodies ==
  { [status |-> st] : st \in Statuses }
  \cup { [publishedAt |-> NoDate],
         [content |-> ContentTwoMinutes], [content |-> ContentShort],
         [title |-> TitleShort],
         [category |-> "Sports"], [category |-> "Technology"],
         << >> }

NextAdmin ==
  \/ \E p \in Procs, body \in AdminCreateBodies : CreateBlog(p, body)
  \/ \E p \in Procs, id \in 1..nextId, body \in AdminUpdateBodies :
       UpdateBlog(p, id, body)
  \/ \E p \in Procs, sl \in SlugParams : ViewBlog(p, sl)
  \/ \E p \in Procs, id \in 1..nextId : DeleteFind(p, id)
  \/ \E p \in Procs : DeleteCommit(p)
  \/ \E p \in Procs : HookProbe(p)
  \/ \E p \in Procs : Write(p)
  \/ Tick

SpecAdmin == InitAdmin /\ [][NextAdmin]_vars

\* ------------------------------------------------------ the public reads

\* `parseInt(req.query.limit) || 10` of the list, `|| 3` of the featured posts.
DefaultLimit == 10
FeaturedLimit == 3

\* Variant: the filter keeps whatever is not a draft.
NotDraftOnly(d) == d.status # "draft"

\* `status: 'published'` of the public queries.
PublishedOnly(d) == d.status = "published"

\* `parseInt(req.query.x) || dflt`: the parameter, or the default when it is absent or 0.
OrDefault(n, dflt) == IF n = 0 THEN dflt ELSE n

\* The query of GET /api/blog: published posts, of the category and featured if asked.
\* (A search term adds an $or of regular expressions, which only narrows the match.)
ListMatch(d, q) ==
  /\ PublishedOnly(d)
  /\ q.category # "" => d.category = q.category
  /\ q.featured = "true" => d.featured = TRUE

\* .sort({ publishedAt: -1 }): the ids of S, latest publication first (posts of the
\* same date in the order of their ids).
RECURSIVE ByPublishedAtDesc(_, _)
ByPublishedAtDesc(store, S) ==
  IF S = {} THEN << >>
  ELSE LET first == CHOOSE i \in S : \A j \in S :
                      \/ store[j].publishedAt < store[i].publishedAt
                      \/ store[j].publishedAt = store[i].publishedAt /\ i <= j
       IN << first >> \o ByPublishedAtDesc(store, S \ {first})

\* .skip(skip).limit(limit) of a sorted result.
Window(ids, skip, limit) ==
  SubSeq(ids, skip + 1, IF skip + limit < Len(ids) THEN skip + limit ELSE Len(ids))

\* .select('-content')
WithoutContent(d) == [ f \in DOMAIN d \ {"content"} |-> d[f] ]

\* The posts a find() with sort, skip and limit returns.
FindPage(store, match, skip, limit) ==
  LET ids == Window(ByPublishedAtDesc(store, { i \in DOMAIN store : match[i] }),
                    skip, limit)
  IN { WithoutContent(store[ids[k]]) : k \in 1..Len(ids) }

\* GET /api/blog, first read: Blog.find(query) sorted and paged.
ListFind(p, q) ==
  /\ Free(p) /\ Started
  /\ reqs' = reqs + 1
  /\ LET limit == OrDefault(q.limit, DefaultLimit)
         skip  == (OrDefault(q.page, 1) - 1) * limit
         match == [ i \in Ids |-> ListMatch(blogs[i], q) ]
     IN req' = [req EXCEPT ![p] =
                  [IdleReq EXCEPT !.pc = "count", !.query = q,
                                  !.found = FindPage(blogs, match, skip, limit)]]
  /\ resp' = [resp EXCEPT ![p] = "none"]
  /\ UNCHANGED << blogs, nextId, now, shown, rest >>

\* GET /api/blog, second read and answer: Blog.countDocuments(query), then 200 with
\* the posts found and the total.
ListCount(p) ==
  /\ req[p].pc = "count"
  /\ shown' = [ kind |-> "list", posts |-> req[p].found, categories |-> {},
                total |-> Cardinality({ i \in Ids : ListMatch(blogs[i], req[p].query) }) ]
  /\ resp' = [resp EXCEPT ![p] = "200"]
  /\ req' = [req EXCEPT ![p] = IdleReq]
  /\ UNCHANGED << blogs, nextId, now, reqs, rest >>

\* GET /api/blog/featured/posts: the published and featured posts, latest first, up to
\* the limit.
FeaturedPosts(p, limit) ==
  /\ Free(p) /\ Started
  /\ reqs' = reqs + 1
  /\ shown' = [ kind |-> "featured",
                posts |-> FindPage(blogs,
                                   [ i \in Ids |-> PublishedOnly(blogs[i])
                                                     /\ blogs[i].featured = TRUE ],
                                   0, OrDefault(limit, FeaturedLimit)),
                categories |-> {}, total |-> 0 ]
  /\ resp' = [resp EXCEPT ![p] = "200"]
  /\ UNCHANGED << blogs, nextId, now, req, rest >>

\* GET /api/blog/categories/list: Blog.distinct('category', { status: 'published' }).
CategoriesList(p) ==
  /\ Free(p) /\ Started
  /\ reqs' = reqs + 1
  /\ shown' = [ kind |-> "categories", posts |-> {},
                categories |-> { blogs[i].category :
                                   i \in { j \in Ids : PublishedOnly(blogs[j]) } },
                total |-> 0 ]
  /\ resp' = [resp EXCEPT ![p] = "200"]
  /\ UNCHANGED << blogs, nextId, now, req, rest >>

\* Four posts created earlier: a featured draft, a published post, a featured archived
\* post and a featured post published a tick later.
PublicSeeds ==
  ( 1 :> Created(1, [title |-> TitleMyPost, content |-> ContentLong,
                     category |-> "Technology", featured |-> TRUE],
                 SlugMyPost, Epoch0) )
  @@ ( 2 :> Created(2, [title |-> TitleNumbered, content |-> ContentLong,
                        category |-> "General", status |-> "published"],
                    SlugMyPost1, Epoch0) )
  @@ ( 3 :> Created(3, [title |-> TitleMyPost, content |-> ContentLong,
                        category |-> "Training", status |-> "archived",
                        featured |-> TRUE],
                    Suffixed(SlugMyPost, 2), Epoch0) )
  @@ ( 4 :> Created(4, [title |-> TitleMyPost, content |-> ContentLong,
                        category |-> "General", status |-> "published",
                        featured |-> TRUE],
                    Suffixed(SlugMyPost, 3), Epoch0 + 1) )

InitPublic ==
  /\ blogs = PublicSeeds
  /\ nextId = 5
  /\ now = Epoch0 + 1
  /\ req = [ p \in Procs |-> IdleReq ]
  /\ resp = [ p \in Procs |-> "none" ]
  /\ reqs = 0
  /\ shown = NothingShown
  /\ RestEmpty

\* req.query of GET /api/blog.
Queries ==
  [ category : {"", "General", "Technology"}, featured : {"", "true"},
    page : {0, 2}, limit : {0, 1} ]

\* Bodies of PUT /api/blog/:id that move a post between the statuses.
StatusBodies == { [status |-> st] : st \in Statuses }

\* The slugs a public reader may ask for: of the draft, of a published post, of the
\* archived post.
PublicSlugParams == {SlugMyPost, SlugMyPost1, Suffixed(SlugMyPost, 2)}

NextPublic ==
  \/ \E p \in Procs, q \in Queries : ListFind(p, q)
  \/ \E p \in Procs : ListCount(p)
  \/ \E p \in Procs, limit \in {0, 1} : FeaturedPosts(p, limit)
  \/ \E p \in Procs : CategoriesList(p)
  \/ \E p \in Procs, sl \in PublicSlugParams : ViewBlog(p, sl)
  \/ \E p \in Procs : Write(p)
  \/ \E p \in Procs, id \in Ids, body \in StatusBodies : UpdateBlog(p, id, body)

SpecPublic == InitPublic /\ [][NextPublic]_vars

\* ------------------------------------------------ the derivation alone

Alphabet == {"A", "b", "1", " ", "-", "\t"}

AllTitles == UNION { [1..n -> Alphabet] : n \in 1..MaxLen }

TitleCloud ==
  << "C","l","o","u","d"," ","C","o","m","p","u","t","i","n","g"," ",
     "T","r","e","n","d","s","!","!" >>

\* The titles derived: every short one over the alphabet, and one of the documentation.
DeriveTitles == AllTitles \cup {TitleCloud}

\* Two documents constructed with the same title, not yet saved (in the first two
\* slots).
InitDerive ==
  /\ blogs = << >>
  /\ nextId = MaxProcs + 1
  /\ now = Epoch0
  /\ \E t \in DeriveTitles :
       req = [ p \in Procs |->
                 IF p > 2 THEN IdleReq
                 ELSE [IdleReq EXCEPT !.pc = "new", !.isNew = TRUE,
                         !.doc = NewBlog(p, [title |-> t, content |-> ContentLong,
                                             category |-> "General"]),
                         !.modified = {"title", "content", "category"}] ]
  /\ resp = [ p \in Procs |-> "none" ]
  /\ reqs = 0
  /\ shown = NothingShown
  /\ RestEmpty

\* save() of a constructed document: the schema's validation (`required` on the title,
\* after `trim`), then the hooks up to the first probe.
SaveNew(p) ==
  /\ req[p].pc = "new"
  /\ IF req[p].doc.title = << >> \/ Len(req[p].doc.title) > MaxTitleLen
     THEN /\ req' = [req EXCEPT ![p] = IdleReq]
          /\ resp' = [resp EXCEPT ![p] = "next(error)"]
     ELSE /\ SaveBegin(p, req[p].doc, req[p].modified, TRUE)
          /\ UNCHANGED resp
  /\ UNCHANGED << blogs, nextId, now, reqs, shown, rest >>

NextDerive ==
  \/ \E p \in Procs : SaveNew(p)
  \/ Tick

SpecDerive == InitDerive /\ [][NextDerive]_vars

\* ------------------------------------------------ the read time alone

\* A text of n copies of word, separated by gap.
Repeated(n, word, gap) ==
  LET piece == word \o gap
  IN [ i \in 1..(n * Len(piece) - Len(gap)) |-> piece[((i - 1) % Len(piece)) + 1] ]

\* Numbers of words around one and two minutes of reading, and the least that passes
\* the content validator with one-letter words.
ReadSizes ==
  {MinContentLen \div 2 + 1}
  \cup ((wordsPerMinute - 2)..(wordsPerMinute + 2))
  \cup ((2 * wordsPerMinute - 1)..(2 * wordsPerMinute + 1))

ReadWords == { << "w" >>, << "w", "o", "r", "d" >> }

ReadGaps == { << " " >>, << " ", " " >>, << "\n" >>, << "\t", " " >> }

\* Contents as POST /api/blog hands them to Blog.create: trimmed, of 50 characters at
\* least.
ReadContents ==
  { Repeated(n, w, g) : n \in ReadSizes, w \in ReadWords, g \in ReadGaps }

\* One document constructed with such a content, not yet saved.
InitRead ==
  /\ blogs = << >>
  /\ nextId = 2
  /\ now = Epoch0
  /\ \E c \in ReadContents :
       req = [ p \in Procs |->
                 IF p > 1 THEN IdleReq
                 ELSE [IdleReq EXCEPT !.pc = "new", !.isNew = TRUE,
                         !.doc = NewBlog(p, [title |-> TitleMyPost, content |-> c,
                                             category |-> "General"]),
                         !.modified = {"title", "content", "category"}] ]
  /\ resp = [ p \in Procs |-> "none" ]
  /\ reqs = 0
  /\ shown = NothingShown
  /\ RestEmpty

NextRead ==
  \/ \E p \in Procs : SaveNew(p)
  \/ \E p \in Procs : HookProbe(p)
  \/ \E p \in Procs : Write(p)
  \/ Tick

SpecRead == InitRead /\ [][NextRead]_vars

\* ------------------------------------------------ a crowded store

\* The stored post that holds the k-th candidate of the base "my-post": titled
\* "My Post", or "My Post <k>" where the loop cannot assign that candidate.
SeedDoc(k) ==
  [ id |-> k + 1,
    title |-> IF k < MaxCounter THEN TitleMyPost
              ELSE TitleMyPost \o << " " >> \o ToDigits(k),
    slug |-> IF k = 0 THEN SlugMyPost ELSE Suffixed(SlugMyPost, k),
    status |-> "draft", publishedAt |-> NoDate, content |-> ContentLong,
    category |-> "General", readTime |-> ComputeReadTime(ContentLong), views |-> 0,
    featured |-> FALSE ]

\* Which candidates are taken at the start: none, a few, all that the loop can assign
\* (less the last, and exactly), and all and one more but an early one.
StormSeeds ==
  { {}, {0}, {0, 2},
    0..(MaxCounter - 2), 0..(MaxCounter - 1), (0..MaxCounter) \ {2} }

InitStorm ==
  /\ \E seed \in StormSeeds : blogs = [ i \in { k + 1 : k \in seed } |-> SeedDoc(i - 1) ]
  /\ nextId = MaxCounter + 2
  /\ now = Epoch0
  /\ req = [ p \in Procs |-> IdleReq ]
  /\ resp = [ p \in Procs |-> "none" ]
  /\ reqs = 0
  /\ shown = NothingShown
  /\ RestEmpty

StormBodies ==
  { [title |-> t, content |-> ContentLong, category |-> "General"] :
      t \in {TitleMyPost, TitleMyPostBang} }

\* Creations, one after another, of posts whose titles derive the base "my-post".
NextStorm ==
  \/ AllIdle /\ \E p \in Procs, body \in StormBodies : CreateBlog(p, body)
  \/ \E p \in Procs : HookLoop(p)
  \/ \E p \in Procs : Write(p)
  \/ Tick

SpecStorm == InitStorm /\ [][NextStorm]_vars

\* ------------------------------------------------------------- claims

\* What the claims say of a slug, written out on its own.

AsciiLetterOrDigit(c) ==
  c \in Range(LowerSeq) \cup Range(UpperSeq) \cup Range(DigitSeq)

HasAlnum(title) == \E i \in DOMAIN title : AsciiLetterOrDigit(title[i])

LowerOf(c) ==
  IF \E i \in 1..26 : UpperSeq[i] = c
  THEN LowerSeq[CHOOSE i \in 1..26 : UpperSeq[i] = c]
  ELSE c

\* One pass over the title: letters and digits are kept in lower case, a hyphen goes
\* between two kept characters that had a space somewhere between them, nothing else
\* is kept.
RECURSIVE ExpectedFrom(_, _, _, _)
ExpectedFrom(s, i, out, gap) ==
  IF i > Len(s) THEN out
  ELSE IF AsciiLetterOrDigit(s[i])
       THEN ExpectedFrom(s, i + 1,
                         (IF gap /\ out # << >> THEN out \o << "-" >> ELSE out)
                           \o << LowerOf(s[i]) >>,
                         FALSE)
       ELSE ExpectedFrom(s, i + 1, out, gap \/ s[i] = " ")

ExpectedSlug(title) == ExpectedFrom(title, 1, << >>, FALSE)

RECURSIVE DecimalOf(_)
DecimalOf(n) ==
  IF n < 10 THEN << DigitSeq[n + 1] >>
  ELSE DecimalOf(n \div 10) \o << DigitSeq[(n % 10) + 1] >>

\* base, base-1, base-2, ...: the k-th candidate of a base.
Numbered(base, k) == IF k = 0 THEN base ELSE base \o << "-" >> \o DecimalOf(k)

\* The clock values a behaviour has seen so far.
ClockValues == Epoch0..now

\* "blog-post-<epochMillis>" for a clock value seen.
IsFallbackToken(s) ==
  \E t \in ClockValues :
    s = << "b","l","o","g","-","p","o","s","t","-" >> \o DecimalOf(t)

\* Non-empty, [a-z0-9] tokens separated by single hyphens, no hyphen at either end.
WellFormedSlug(s) ==
  /\ s # << >>
  /\ \A i \in DOMAIN s : s[i] \in Range(LowerSeq) \cup Range(DigitSeq) \cup {"-"}
  /\ s[1] # "-" /\ s[Len(s)] # "-"
  /\ \A i \in 1..(Len(s) - 1) : ~(s[i] = "-" /\ s[i + 1] = "-")

\* The bases a title can give: its derived form, or the fallback token when that is empty.
IsBaseOf(b, title) ==
  IF HasAlnum(title) THEN b = ExpectedSlug(title) ELSE IsFallbackToken(b)

\* s is a base of the title, or such a base with a numeric or a timestamp suffix.
DerivedFromTitle(s, title) ==
  \/ IsBaseOf(s, title)
  \/ \E n \in 1..Len(s) :
       /\ s[n] = "-"
       /\ IsBaseOf(SubSeq(s, 1, n - 1), title)
       /\ \E k \in (1..MaxCounter) \cup ClockValues : SubSeq(s, n + 1, Len(s)) = DecimalOf(k)

\* C1: no two stored blog posts have the same slug, in any interleaving of the
\* create, update, view and delete requests.
C1_SlugsUnique ==
  \A i \in Ids : \A j \in Ids : i # j => blogs[i].slug # blogs[j].slug

\* C1 witness: a creation has passed its probes and is about to write a slug that
\* another post took in the meantime.
C1_Witness ==
  \E p \in Procs : \E i \in Ids :
    /\ req[p].pc = "write" /\ req[p].isNew
    /\ blogs[i].slug = req[p].doc.slug

\* C3 (as claimed): every stored post's slug is well formed and derived from the
\* post's title.
C3_SlugWellFormedFromTitle ==
  \A i \in Ids :
    /\ WellFormedSlug(blogs[i].slug)
    /\ DerivedFromTitle(blogs[i].slug, blogs[i].title)

\* C6 (as claimed): a step that stores a post with a new title (a creation, a title
\* edit) leaves it with a slug that corresponds to the stored title.
C6_TitleChangeRederivesSlug ==
  [][ \A i \in DOMAIN blogs' :
        (i \notin Ids \/ blogs'[i].title # blogs[i].title)
          => DerivedFromTitle(blogs'[i].slug, blogs'[i].title) ]_vars

\* C7 (as claimed): a step that leaves a post's title as it is leaves its slug as it is.
C7_SlugKeptWithoutTitleChange ==
  [][ \A i \in Ids \cap DOMAIN blogs' :
        (blogs[i].slug # << >> /\ blogs'[i].title = blogs[i].title)
          => blogs'[i].slug = blogs[i].slug ]_vars

\* ---- the derivation (SpecDerive)

SlugCloud ==
  << "c","l","o","u","d","-","c","o","m","p","u","t","i","n","g","-",
     "t","r","e","n","d","s" >>

\* A slot whose save has derived its base.
Derived(p) == req[p].pc = "probe"

\* C4: for a title with a letter or a digit the derived base is the lower-cased title
\* without its other characters, its runs of spaces turned into single hyphens and no
\* hyphen at either end, whatever the clock says; "Cloud Computing Trends!!" gives
\* "cloud-computing-trends".
C4_DeriveSlug ==
  /\ \A p \in Procs :
       (Derived(p) /\ HasAlnum(req[p].doc.title))
         => req[p].baseSlug = ExpectedSlug(req[p].doc.title)
  /\ \A p \in Procs : \A q \in Procs :
       (Derived(p) /\ Derived(q) /\ req[p].doc.title = req[q].doc.title
          /\ HasAlnum(req[p].doc.title))
         => req[p].baseSlug = req[q].baseSlug
  /\ \A p \in Procs :
       (Derived(p) /\ req[p].doc.title = TitleCloud) => req[p].baseSlug = SlugCloud

\* C4 witness: "A- b" has been derived to "a-b" at two clock values.
C4_Witness ==
  \E p \in Procs : \E q \in Procs :
    /\ Derived(p) /\ Derived(q) /\ req[p].at # req[q].at
    /\ req[p].doc.title = << "A", "-", " ", "b" >>
    /\ req[p].baseSlug = << "a", "-", "b" >>
    /\ req[q].baseSlug = << "a", "-", "b" >>

\* C5: for a title without letter or digit the base is a non-empty token built from
\* the clock value of the derivation, and derivations at different clock values give
\* different tokens.
C5_FallbackToken ==
  /\ \A p \in Procs :
       (Derived(p) /\ ~HasAlnum(req[p].doc.title))
         => /\ req[p].baseSlug # << >>
            /\ req[p].baseSlug =
                 << "b","l","o","g","-","p","o","s","t","-" >> \o DecimalOf(req[p].at)
  /\ \A p \in Procs : \A q \in Procs :
       (Derived(p) /\ Derived(q)
          /\ ~HasAlnum(req[p].doc.title) /\ ~HasAlnum(req[q].doc.title)
          /\ req[p].at # req[q].at)
         => req[p].baseSlug # req[q].baseSlug

\* C5 witness: "-<tab>-" has been derived at two clock values, to two tokens.
C5_Witness ==
  \E p \in Procs : \E q \in Procs :
    /\ Derived(p) /\ Derived(q) /\ req[p].at # req[q].at
    /\ req[p].doc.title = << "-", "\t", "-" >>
    /\ req[q].doc.title = << "-", "\t", "-" >>
    /\ req[p].baseSlug # req[q].baseSlug

\* ---- saves one after another (SpecSeq, SpecStorm)

UsedSlugs == { blogs[i].slug : i \in Ids }

\* The candidates base, base-1 .. base-n that are not in the set used.
FreeAmong(used, base, n) == { k \in 0..n : Numbered(base, k) \notin used }

\* The candidates base, base-1 .. base-n that no stored post has.
FreeCandidates(base, n) == LET used == UsedSlugs IN FreeAmong(used, base, n)

Least(S) == CHOOSE x \in S : \A y \in S : x <= y

IsStamped(s, base) == \E t \in ClockValues : s = base \o << "-" >> \o DecimalOf(t)

\* A creation whose hooks have run and whose insert is next.
Creating(p) == req[p].pc = "write" /\ req[p].isNew

\* C8: a stored post saved with a changed title whose base no other post uses keeps
\* the base itself, also when it is the post's own current slug.
C8_ProbeIgnoresSelf ==
  \A p \in Procs :
    ( /\ req[p].pc = "write" /\ ~req[p].isNew /\ "title" \in req[p].modified
      /\ \A i \in Ids : i # req[p].doc.id => blogs[i].slug # req[p].baseSlug )
      => req[p].doc.slug = req[p].baseSlug

\* C8 witness: a post is saved under a new title that derives the slug it already has,
\* and keeps it.
C8_Witness ==
  \E p \in Procs :
    /\ req[p].pc = "write" /\ ~req[p].isNew /\ "title" \in req[p].modified
    /\ req[p].doc.id \in Ids
    /\ blogs[req[p].doc.id].title # req[p].doc.title
    /\ blogs[req[p].doc.id].slug = ExpectedSlug(req[p].doc.title)
    /\ req[p].doc.slug = blogs[req[p].doc.id].slug

\* C2 (as claimed): a creation gets the first unused of base, base-1, base-2, ...
\* without limit, and no creation is refused.
C2_FirstFreeUnbounded ==
  /\ \A p \in Procs :
       Creating(p) =>
         LET free == FreeCandidates(req[p].baseSlug, Cardinality(Ids))
         IN req[p].doc.slug = Numbered(req[p].baseSlug, Least(free))
  /\ \A p \in Procs : resp[p] # "next(error)"

\* C2 (amended): a creation gets the first unused of base, base-1 .. base-999, which
\* is then written; when all of these are used it gets base-<clock>; between the
\* requests the stored slugs are pairwise distinct (as many slugs as posts), and a
\* creation is refused only when all of these are used.
C2_FirstFreeBelowBound ==
  /\ \A p \in Procs :
       Creating(p) =>
         LET free == FreeCandidates(req[p].baseSlug, MaxCounter - 1)
         IN IF free # {}
            THEN req[p].doc.slug = Numbered(req[p].baseSlug, Least(free))
            ELSE IsStamped(req[p].doc.slug, req[p].baseSlug)
  /\ AllIdle => Cardinality(UsedSlugs) = Cardinality(Ids)
  /\ \A p \in Procs :
       resp[p] = "next(error)" => FreeCandidates(SlugMyPost, MaxCounter - 1) = {}

\* C2 witness: with "my-post" stored, two creations titled "My Post" have stored
\* "my-post-1" and then "my-post-2".
C2_Witness ==
  \E i \in Ids : \E j \in Ids :
    /\ i > MaxCounter + 1 /\ j = i + 1
    /\ blogs[i].title = TitleMyPost /\ blogs[j].title = TitleMyPost
    /\ blogs[i].slug = << "m","y","-","p","o","s","t","-","1" >>
    /\ blogs[j].slug = << "m","y","-","p","o","s","t","-","2" >>
    /\ \E k \in Ids : k < i /\ blogs[k].slug = << "m","y","-","p","o","s","t" >>

\* C9: a save enters its loop with the counter at 1 and leaves it after at most 1000
\* increments, and after the 1000th with the timestamp-suffixed slug.
C9_LoopBounded ==
  \A p \in Procs :
    /\ req[p].pc = "probe" => req[p].counter = 1
    /\ req[p].pc = "write" => req[p].counter <= MaxCounter + 1
    /\ (req[p].pc = "write" /\ req[p].counter > MaxCounter)
         => IsStamped(req[p].doc.slug, req[p].baseSlug)

\* C9 witness: a save has left the loop after the 1000th increment.
C9_Witness ==
  \E p \in Procs : req[p].pc = "write" /\ req[p].counter = MaxCounter + 1

\* C10 (as claimed): whenever one of base-1 .. base-1000 is unused, the slug assigned
\* is the base or a numeric candidate.
C10_StampOnlyAfter1000 ==
  \A p \in Procs :
    (Creating(p) /\ FreeCandidates(req[p].baseSlug, MaxCounter) \ {0} # {})
      => \E k \in 0..MaxCounter : req[p].doc.slug = Numbered(req[p].baseSlug, k)

\* C10 (amended): the timestamp-suffixed slug is assigned only when the base and
\* base-1 .. base-999 are all in use; whenever one of these is unused the slug
\* assigned is one of them.
C10_StampOnlyAfter999 ==
  \A p \in Procs :
    Creating(p) =>
      /\ IsStamped(req[p].doc.slug, req[p].baseSlug)
           => FreeCandidates(req[p].baseSlug, MaxCounter - 1) = {}
      /\ FreeCandidates(req[p].baseSlug, MaxCounter - 1) # {}
           => \E k \in 0..(MaxCounter - 1) :
                req[p].doc.slug = Numbered(req[p].baseSlug, k)

\* C10 witness: the timestamp-suffixed slug is assigned with base .. base-999 in use
\* and base-1000 unused.
C10_Witness ==
  \E p \in Procs :
    /\ Creating(p)
    /\ IsStamped(req[p].doc.slug, req[p].baseSlug)
    /\ FreeCandidates(req[p].baseSlug, MaxCounter - 1) = {}
    /\ Numbered(req[p].baseSlug, MaxCounter) \notin UsedSlugs

\* C11: when a collision probe fails, the save is abandoned: the request ends with the
\* error handed to the caller, the step writes nothing, and a post whose creation failed
\* this way is not in the store.
C11_ProbeFailureAborts ==
  /\ [](\A p \in Procs :
         req[p].pc = "caught" /\ req[p].isNew => req[p].doc.id \notin Ids)
  /\ [][\A p \in Procs :
          req[p].pc = "caught" /\ req'[p] # req[p]
            => /\ req'[p].pc = "idle"
               /\ resp'[p] = "next(error)"
               /\ blogs' = blogs]_vars

\* A second creation whose probe failed: its error was handed on, and the store still
\* holds the first post alone, as it was.
C11_Witness ==
  /\ nextId = 3
  /\ Ids = {1}
  /\ blogs[1].title = TitleMyPost /\ blogs[1].slug = SlugMyPost
  /\ AllIdle
  /\ \E p \in Procs : resp[p] = "next(error)"

\* The save of slot p is about to write a slug that another stored post holds.
Collides(p) ==
  /\ req[p].pc = "write"
  /\ req[p].isNew \/ "slug" \in req[p].modified
  /\ \E i \in Ids : i # req[p].doc.id /\ blogs[i].slug = req[p].doc.slug

\* C12: a write that the unique index on slug rejects ends the request with the error
\* handed to the caller; the store is left as it was (the rejected post is stored under
\* no slug, no stored post changes) and the save is not run again.
C12_RejectedWriteFails ==
  [][\A p \in Procs :
       Collides(p) /\ req'[p] # req[p]
         => /\ blogs' = blogs
            /\ resp'[p] = "next(error)"
            /\ req'[p].pc = "idle"]_vars

\* Two creations that overlapped, both allotted an _id: one is stored, the other was
\* rejected and no request is left in flight.
C12_Witness ==
  /\ AllIdle /\ reqs = 2 /\ nextId = 3
  /\ Cardinality(Ids) = 1
  /\ \E p, q \in Procs : resp[p] = "next(error)" /\ resp[q] = "201"

\* C13 (as claimed): a stored post has a publication date exactly when its status has
\* been 'published' at some point: a published post has one; a post stored for the
\* first time without being published has none; a date appears only in a step that
\* leaves the post published; and a date, once there, stays.
C13_PublishedAtIffEverPublished ==
  /\ [](\A i \in Ids : blogs[i].status = "published" => blogs[i].publishedAt # NoDate)
  /\ [][\A i \in Ids' :
          IF i \notin Ids
          THEN blogs'[i].status # "published" => blogs'[i].publishedAt = NoDate
          ELSE /\ blogs[i].publishedAt = NoDate /\ blogs'[i].publishedAt # NoDate
                 => blogs'[i].status = "published"
               /\ blogs[i].publishedAt # NoDate => blogs'[i].publishedAt # NoDate]_vars

\* C14 (as claimed): no step changes or clears a publication date that is set.
C14_PublishedAtKept ==
  [][\A i \in Ids \cap Ids' :
       blogs[i].publishedAt # NoDate => blogs'[i].publishedAt = blogs[i].publishedAt]_vars

\* C15 (as claimed): every step that stores a post (for the first time, or changed) with
\* the status 'published' leaves it with a publication date, one not earlier than the
\* first clock value; and an update without fields changes nothing in the store.
C15_PublishingStamps ==
  [][/\ \A i \in Ids' :
          (i \notin Ids \/ blogs'[i] # blogs[i]) /\ blogs'[i].status = "published"
            => blogs'[i].publishedAt # NoDate /\ blogs'[i].publishedAt >= Epoch0
     /\ \A p \in Procs, id \in Ids : UpdateBlog(p, id, << >>) => blogs' = blogs]_vars

\* What the read-time claims say, written out on its own: the whitespace-separated
\* tokens of a text are counted at their first characters.
Blank(c) == c \in {" ", "\t", "\n"}

Tokens(s) ==
  Cardinality({ i \in 1..Len(s) : ~Blank(s[i]) /\ (i = 1 \/ Blank(s[i-1])) })

\* ceil(n / d) for n >= 0: the k with d * (k - 1) < n <= d * k.
CeilOver(n, d) == CHOOSE k \in 0..n : d * (k - 1) < n /\ n <= d * k

MinutesClaimed(content) == CeilOver(Tokens(content), 200)

\* The documents whose hooks have run: those about to be written, and the stored ones.
HooksDone == { req[p].doc : p \in { q \in Procs : req[q].pc = "write" } }
             \cup { blogs[i] : i \in Ids }

\* C17: the read time the hook computes is ceil(n / 200) for the n whitespace-separated
\* tokens of the content: 1 for 199 and for 200 words, 2 for 201, and never below 1.
C17_ReadTimeIsCeiling ==
  \A d \in HooksDone :
    /\ d.readTime = MinutesClaimed(d.content)
    /\ d.readTime >= 1
    /\ Tokens(d.content) \in {199, 200} => d.readTime = 1
    /\ Tokens(d.content) = 201 => d.readTime = 2

\* A post of 201 words, not merely one-letter words singly spaced, has been saved with
\* the read time 2.
C17_Witness ==
  \E i \in Ids :
    /\ Tokens(blogs[i].content) = 201 /\ blogs[i].readTime = 2
    /\ Len(blogs[i].content) > 2 * 201

\* C16 (as claimed): every stored post's read time is the one computed from its stored
\* content, and a step that leaves a post's content alone leaves its read time alone.
C16_ReadTimeFollowsContent ==
  /\ [](\A i \in Ids : blogs[i].readTime = MinutesClaimed(blogs[i].content))
  /\ [][\A i \in Ids \cap Ids' :
          blogs'[i].content = blogs[i].content
            => blogs'[i].readTime = blogs[i].readTime]_vars

\* C18: the removal step of a deletion takes exactly the post found out of the store,
\* every other post staying as it was, and answers 200; the lookup step changes no
\* post, and for an id that is not stored it answers 404 and leaves nothing to run.
C18_DeleteRemovesOnlyThat ==
  [][/\ \A p \in Procs :
          req[p].pc = "delete" /\ req'[p] # req[p]
            => /\ Ids' = Ids \ {req[p].doc.id}
               /\ \A i \in Ids' : blogs'[i] = blogs[i]
               /\ resp'[p] = "200"
     /\ \A p \in Procs, id \in 1..nextId :
          DeleteFind(p, id)
            => /\ blogs' = blogs
               /\ id \notin Ids => resp'[p] = "404" /\ req' = req]_vars

\* The first post has been deleted; the second is stored as it was before.
C18_Witness ==
  /\ Ids = {2}
  /\ blogs[2] = AdminSeeds[2]
  /\ \E p \in Procs : resp[p] = "200" /\ Idle(p)

\* A text without its leading and trailing blanks.
Inner(s) ==
  LET solid == { i \in 1..Len(s) : ~Blank(s[i]) }
  IN IF solid = {} THEN << >>
     ELSE SubSeq(s, CHOOSE i \in solid : \A j \in solid : i <= j,
                    CHOOSE i \in solid : \A j \in solid : j <= i)

\* The body names a title of fewer than 5 characters once trimmed, or a category that
\* is not one of the allowed ones.
Rejectable(body) ==
  \/ Has(body, "title") /\ Len(Inner(body.title)) < 5
  \/ Has(body, "category") /\ body.category \notin Categories

\* C19 (as claimed): a create or update request with such a body is answered 400 by the
\* validators of the route, starts no save and leaves the store unchanged.
C19_InvalidRejectedAtBoundary ==
  [][/\ \A p \in Procs, body \in AdminCreateBodies :
          CreateBlog(p, body) /\ Rejectable(body)
            => resp'[p] = "400" /\ blogs' = blogs /\ req' = req
     /\ \A p \in Procs, id \in 1..nextId, body \in AdminUpdateBodies :
          UpdateBlog(p, id, body) /\ Rejectable(body)
            => resp'[p] = "400" /\ blogs' = blogs /\ req' = req]_vars

PublishedIds == { i \in Ids : blogs[i].status = "published" }

\* C20: the public reads reveal published posts only: the page of the list and the
\* featured posts are posts published when read, the total counts no more than the
\* published posts, every category listed is that of some published post, and asking
\* by slug for a post that is not published answers 404, starts no save and changes
\* nothing (its view count included).
C20_PublicReadsShowPublishedOnly ==
  [][/\ \A p \in Procs, q \in Queries :
          ListFind(p, q) => \A d \in req'[p].found : d.id \in PublishedIds
     /\ \A p \in Procs :
          ListCount(p) => /\ shown'.posts = req[p].found
                          /\ shown'.categories = {}
                          /\ shown'.total <= Cardinality(PublishedIds)
     /\ \A p \in Procs, limit \in {0, 1} :
          FeaturedPosts(p, limit) => /\ \A d \in shown'.posts : d.id \in PublishedIds
                                     /\ shown'.categories = {}
     /\ \A p \in Procs :
          CategoriesList(p) => /\ shown'.posts = {}
                               /\ \A c \in shown'.categories :
                                    \E i \in PublishedIds : blogs[i].category = c
     /\ \A p \in Procs, sl \in PublicSlugParams :
          ViewBlog(p, sl) /\ (\A i \in PublishedIds : blogs[i].slug # sl)
            => resp'[p] = "404" /\ blogs' = blogs /\ req' = req]_vars

\* The featured posts were answered with the one that is published, while a featured
\* draft and a featured archived post are stored.
C20_Witness ==
  /\ shown.kind = "featured" /\ { d.id : d \in shown.posts } = {4}
  /\ blogs[1].featured /\ blogs[1].status = "draft"
  /\ blogs[3].featured /\ blogs[3].status = "archived"

\* ------------------------------------------ statistics: the Stats model, /api/stats

\* The defaults of the schema, which the routes repeat.
DefaultClients == 300
DefaultProjects == 500
DefaultSupportHours == 1250
DefaultEmployees == 14

\* updatedBy: null, and req.user.id of the signed-in administrator.
NoAdmin == "null"
AdminId == "admin-1"

StatFields == {"clients", "projects", "supportHours", "employees"}

\* The schema's validators on a whole document: each number has min 0, and updatedBy
\* is required (null does not pass a required validator).
StatsValid(d) ==
  /\ \A f \in StatFields : d[f] >= 0
  /\ d.updatedBy # NoAdmin

\* defaultStats of GET /api/stats, with the schema's default of lastUpdated.
defaultStats(t) ==
  [ clients |-> DefaultClients, projects |-> DefaultProjects,
    supportHours |-> DefaultSupportHours, employees |-> DefaultEmployees,
    lastUpdated |-> t, updatedBy |-> NoAdmin ]

\* `clients || 300`: an absent or zero field of the body gives way to the default.
FieldOr(body, f, dflt) == IF Has(body, f) /\ body[f] # 0 THEN body[f] ELSE dflt

\* The document PUT /api/stats creates when it has found none.
FirstStats(body, t) ==
  [ clients |-> FieldOr(body, "clients", DefaultClients),
    projects |-> FieldOr(body, "projects", DefaultProjects),
    supportHours |-> FieldOr(body, "supportHours", DefaultSupportHours),
    employees |-> FieldOr(body, "employees", DefaultEmployees),
    lastUpdated |-> t, updatedBy |-> AdminId ]

\* updateData of PUT /api/stats laid over a stored document: the fields the body
\* defines, lastUpdated and updatedBy.
WithUpdateData(d, body, t) ==
  [ f \in DOMAIN d |->
      IF f = "lastUpdated" THEN t
      ELSE IF f = "updatedBy" THEN AdminId
      ELSE IF Has(body, f) THEN body[f] ELSE d[f] ]

\* The validators of PUT /api/stats: optional().isInt({ min: 0 }) on the four numbers.
StatsBodyValid(body) == \A f \in DOMAIN body : body[f] >= 0

\* GET /api/stats: Stats.findOne(); the document found is answered, and with none
\* found the route goes on to create the defaults.
GetStats(p) ==
  /\ Free(p) /\ Started
  /\ reqs' = reqs + 1
  /\ IF stats # << >>
     THEN /\ resp' = [resp EXCEPT ![p] = "200"]
          /\ shown' = [kind |-> "stats", data |-> stats[1]]
          /\ UNCHANGED req
     ELSE /\ req' = [req EXCEPT ![p] = [pc |-> "stats-default", at |-> now]]
          /\ resp' = [resp EXCEPT ![p] = "none"]
          /\ UNCHANGED shown
  /\ UNCHANGED << blogs, nextId, now, stats, subscribers, posts, outbox, db >>

\* GET /api/stats, second half: Stats.create(defaultStats) validates the document and
\* inserts it; a validation error goes to next(error).
CreateDefaultStats(p) ==
  /\ req[p].pc = "stats-default"
  /\ LET d == defaultStats(req[p].at)
     IN IF StatsValid(d)
        THEN /\ stats' = Append(stats, d)
             /\ resp' = [resp EXCEPT ![p] = "200"]
             /\ shown' = [kind |-> "stats", data |-> d]
        ELSE /\ resp' = [resp EXCEPT ![p] = "next(error)"]
             /\ UNCHANGED << stats, shown >>
  /\ req' = [req EXCEPT ![p] = IdleReq]
  /\ UNCHANGED << blogs, nextId, now, reqs, subscribers, posts, outbox, db >>

\* PUT /api/stats: the validators, then Stats.findOne().
PutStats(p, body) ==
  /\ Free(p) /\ Started
  /\ reqs' = reqs + 1
  /\ IF ~StatsBodyValid(body)
     THEN /\ resp' = [resp EXCEPT ![p] = "400"]
          /\ UNCHANGED req
     ELSE /\ req' = [req EXCEPT ![p] =
                       [ pc |-> "stats-put", body |-> body, at |-> now,
                         found |-> stats # << >> ]]
          /\ resp' = [resp EXCEPT ![p] = "none"]
  /\ UNCHANGED << blogs, nextId, now, shown, stats, subscribers, posts, outbox, db >>

\* PUT /api/stats, second half: Stats.create(...) when findOne found nothing, else
\* Stats.findOneAndUpdate({}, updateData, { new: true, runValidators: true }), which
\* updates the first document of the collection.
PutStatsWrite(p) ==
  /\ req[p].pc = "stats-put"
  /\ LET r == req[p]
     IN IF ~r.found
        THEN stats' = Append(stats, FirstStats(r.body, r.at))
        ELSE stats' = [stats EXCEPT ![1] = WithUpdateData(@, r.body, r.at)]
  /\ resp' = [resp EXCEPT ![p] = "200"]
  /\ req' = [req EXCEPT ![p] = IdleReq]
  /\ UNCHANGED << blogs, nextId, now, reqs, shown, subscribers, posts, outbox, db >>

\* Bodies of PUT /api/stats.
StatsBodies ==
  { << >>, [clients |-> 7], [clients |-> 0, employees |-> 3], [projects |-> -1],
    [supportHours |-> 9, projects |-> 2] }

NextStats ==
  \/ \E p \in Procs : GetStats(p)
  \/ \E p \in Procs : CreateDefaultStats(p)
  \/ \E p \in Procs, body \in StatsBodies : PutStats(p, body)
  \/ \E p \in Procs : PutStatsWrite(p)
  \/ Tick

\* The statistics routes in any interleaving, from an empty collection.
SpecStats == Init /\ [][NextStats]_vars

\* C21: every GET /api/stats is answered 200 with a statistics document: the stored
\* one, left as it is, when there is one; else a document it has just stored, holding
\* clients 300, projects 500, supportHours 1250 and employees 14.
C21_GetStatsAlwaysSucceeds ==
  [][\A p \in Procs :
       /\ GetStats(p) /\ stats # << >> =>
            resp'[p] = "200" /\ shown'.data = stats[1] /\ stats' = stats
       /\ CreateDefaultStats(p) =>
            /\ resp'[p] = "200"
            /\ Len(stats') = Len(stats) + 1
            /\ \A f \in StatFields :
                 stats'[Len(stats')][f] = defaultStats(now)[f]
            /\ shown'.data = stats'[Len(stats')]
    ]_vars

\* C22: the stats collection never holds more than one document.
C22_AtMostOneStatsDocument == Len(stats) <= 1

\* ------------------------- subscribers: the Newsletter model, /api/newsletter

\* \w of a regular expression.
IsWordChar(c) == IsLower(c) \/ IsUpper(c) \/ IsDigit(c) \/ c = "_"

IsDotOrHyphen(c) == c \in {".", "-"}

\* \w+([.-]?\w+)* over the whole of s: word characters with single dots or hyphens
\* between them, none at either end.
DottedWords(s) ==
  /\ s # << >>
  /\ \A i \in 1..Len(s) : IsWordChar(s[i]) \/ IsDotOrHyphen(s[i])
  /\ IsWordChar(s[1]) /\ IsWordChar(s[Len(s)])
  /\ \A i \in 1..(Len(s) - 1) : ~(IsDotOrHyphen(s[i]) /\ IsDotOrHyphen(s[i + 1]))

\* match: /^\w+([.-]?\w+)*@\w+([.-]?\w+)*(\.\w{2,3})+$/ : dotted words, an @, dotted
\* words, and a last label of two or three word characters after a dot.
MatchesEmail(s) ==
  \E a \in 1..Len(s) : \E k \in {2, 3} :
    LET host == SubSeq(s, a + 1, Len(s))
    IN /\ s[a] = "@"
       /\ DottedWords(SubSeq(s, 1, a - 1))
       /\ Len(host) >= k + 2
       /\ host[Len(host) - k] = "."
       /\ \A i \in (Len(host) - k + 1)..Len(host) : IsWordChar(host[i])
       /\ DottedWords(SubSeq(host, 1, Len(host) - k - 1))

\* The setters of the email path (lowercase: true, trim: true), which also run on the
\* filter of a query.
CastEmail(email) == ToLowerCase(Trim(email))

\* Addresses a request may carry: two spellings of one address, a second address, a
\* string the pattern rejects, and none.
EmailAnn      == << "a", "@", "b", ".", "i", "o" >>
EmailAnnShout == << " ", "A", "@", "B", ".", "i", "o" >>
EmailBob      == << "b", "-", "1", "@", "b", ".", "i", "o" >>
EmailBad      == << "a", "@", "b" >>
NoEmail       == << >>

SubEmails == {EmailAnn, EmailAnnShout, EmailBob, EmailBad, NoEmail}

\* Variant: a new subscriber starts inactive.
NewSubscriberInactive(email, t) ==
  [ email |-> CastEmail(email), isActive |-> FALSE, subscribedAt |-> t,
    unsubscribedAt |-> NoDate, source |-> "website" ]

\* new Newsletter({ email, source: 'website' }) over the schema's defaults.
NewSubscriber(email, t) ==
  [ email |-> CastEmail(email), isActive |-> TRUE, subscribedAt |-> t,
    unsubscribedAt |-> NoDate, source |-> "website" ]

\* The validators of the schema run by save(): email required and matching the
\* pattern, source within its enum.
SubscriberValid(d) ==
  /\ d.email # << >>
  /\ MatchesEmail(d.email)
  /\ d.source \in {"website", "admin", "api"}

\* Variant: unsubscribe() leaves unsubscribedAt as it was.
UnsubscribedNoStamp(d, t) == [d EXCEPT !.isActive = FALSE]

\* methods.unsubscribe, up to its save().
Unsubscribed(d, t) == [d EXCEPT !.isActive = FALSE, !.unsubscribedAt = t]

\* Variant: resubscribe() leaves unsubscribedAt as it was.
ResubscribedKeepsDate(d) == [d EXCEPT !.isActive = TRUE]

\* methods.resubscribe, up to its save().
Resubscribed(d) == [d EXCEPT !.isActive = TRUE, !.unsubscribedAt = NoDate]

\* The paths that differ between the document read and the document to save.
Changed(d, e) == { f \in DOMAIN d : d[f] # e[f] }

\* Newsletter.findOne({ email }): the first stored record of that address, 0 for none.
FindSubscriber(store, email) ==
  LET hits == { i \in DOMAIN store : store[i].email = CastEmail(email) }
  IN IF hits = {} THEN 0 ELSE CHOOSE i \in hits : \A j \in hits : i <= j

\* Variant: the collection has no unique index on email.
DuplicateEmailOff(store, email) == FALSE

\* unique: true on email: an insert of an address already stored fails with E11000.
DuplicateEmail(store, email) == \E i \in DOMAIN store : store[i].email = email

\* POST /api/newsletter/subscribe: 400 without an email; findOne; 400 for an active
\* record; for an inactive one resubscribe() is called; for none a new document is
\* built and save() called.
Subscribe(p, email) ==
  /\ Free(p) /\ Started
  /\ reqs' = reqs + 1
  /\ LET i == FindSubscriber(subscribers, email)
     IN IF email = NoEmail
        THEN /\ resp' = [resp EXCEPT ![p] = "400 Email is required"]
             /\ UNCHANGED req
        ELSE IF i # 0 /\ subscribers[i].isActive
        THEN /\ resp' = [resp EXCEPT ![p] =
                           "400 Email is already subscribed to our newsletter"]
             /\ UNCHANGED req
        ELSE IF i # 0
        THEN /\ req' = [req EXCEPT ![p] =
                          [ pc |-> "resubscribe", id |-> i, email |-> email,
                            doc |-> Resubscribed(subscribers[i]),
                            modified |-> Changed(subscribers[i],
                                                 Resubscribed(subscribers[i])),
                            at |-> now ]]
             /\ resp' = [resp EXCEPT ![p] = "none"]
        ELSE /\ req' = [req EXCEPT ![p] =
                          [ pc |-> "subscribe", id |-> 0, email |-> email,
                            doc |-> NewSubscriber(email, now), modified |-> {},
                            at |-> now ]]
             /\ resp' = [resp EXCEPT ![p] = "none"]
  /\ UNCHANGED << blogs, nextId, now, shown, stats, subscribers, posts, outbox, db >>

\* subscriber.save() of a new subscriber: a validation error is answered 500, a
\* duplicate key (error.code === 11000) 400; else the record is inserted and the
\* welcome message is next.
SaveSubscriber(p) ==
  /\ req[p].pc = "subscribe"
  /\ LET d == req[p].doc
     IN IF ~SubscriberValid(d)
        THEN /\ resp' = [resp EXCEPT ![p] = "500"]
             /\ req' = [req EXCEPT ![p] = IdleReq]
             /\ UNCHANGED subscribers
        ELSE IF DuplicateEmail(subscribers, d.email)
        THEN /\ resp' = [resp EXCEPT ![p] = "400 Email is already subscribed"]
             /\ req' = [req EXCEPT ![p] = IdleReq]
             /\ UNCHANGED subscribers
        ELSE /\ subscribers' = Append(subscribers, d)
             /\ req' = [req EXCEPT ![p].pc = "welcome"]
             /\ UNCHANGED resp
  /\ UNCHANGED << blogs, nextId, now, reqs, shown, stats, posts, outbox, db >>

\* The welcome message: sendEmail to the address as the request spelt it; a failure is
\* logged and the subscription still answered 201.
Welcome(p, ok) ==
  /\ req[p].pc = "welcome"
  /\ outbox' = Append(outbox, [to |-> req[p].email, post |-> 0, ok |-> ok])
  /\ resp' = [resp EXCEPT ![p] = "201"]
  /\ req' = [req EXCEPT ![p] = IdleReq]
  /\ UNCHANGED << blogs, nextId, now, reqs, shown, stats, subscribers, posts, db >>

\* The save() that ends resubscribe(): $set of the modified paths on the stored record.
SaveResubscribe(p) ==
  /\ req[p].pc = "resubscribe"
  /\ subscribers' = [subscribers EXCEPT ![req[p].id] = Merge(@, req[p].doc, req[p].modified)]
  /\ resp' = [resp EXCEPT ![p] = "200 reactivated"]
  /\ req' = [req EXCEPT ![p] = IdleReq]
  /\ UNCHANGED << blogs, nextId, now, reqs, shown, stats, posts, outbox, db >>

\* POST /api/newsletter/unsubscribe: 400 without an email; findOne; 404 for none; 400
\* for an inactive record; else unsubscribe() is called.
Unsubscribe(p, email) ==
  /\ Free(p) /\ Started
  /\ reqs' = reqs + 1
  /\ LET i == FindSubscriber(subscribers, email)
     IN IF email = NoEmail
        THEN /\ resp' = [resp EXCEPT ![p] = "400 Email is required"]
             /\ UNCHANGED req
        ELSE IF i = 0
        THEN /\ resp' = [resp EXCEPT ![p] = "404"]
             /\ UNCHANGED req
        ELSE IF ~subscribers[i].isActive
        THEN /\ resp' = [resp EXCEPT ![p] = "400 Email is already unsubscribed"]
             /\ UNCHANGED req
        ELSE /\ req' = [req EXCEPT ![p] =
                          [ pc |-> "unsubscribe", id |-> i, email |-> email,
                            doc |-> Unsubscribed(subscribers[i], now),
                            modified |-> Changed(subscribers[i],
                                                 Unsubscribed(subscribers[i], now)),
                            at |-> now ]]
             /\ resp' = [resp EXCEPT ![p] = "none"]
  /\ UNCHANGED << blogs, nextId, now, shown, stats, subscribers, posts, outbox, db >>

\* The save() that ends unsubscribe(): $set of the modified paths on the stored record.
SaveUnsubscribe(p) ==
  /\ req[p].pc = "unsubscribe"
  /\ subscribers' = [subscribers EXCEPT ![req[p].id] = Merge(@, req[p].doc, req[p].modified)]
  /\ resp' = [resp EXCEPT ![p] = "200 unsubscribed"]
  /\ req' = [req EXCEPT ![p] = IdleReq]
  /\ UNCHANGED << blogs, nextId, now, reqs, shown, stats, posts, outbox, db >>

\* Collections left by earlier requests: none; Ann subscribed; Ann subscribed and
\* unsubscribed since.
SubscriberSeeds ==
  { << >>,
    << NewSubscriber(EmailAnn, Epoch0) >>,
    << Unsubscribed(NewSubscriber(EmailAnn, Epoch0), Epoch0) >> }

InitNews ==
  /\ blogs = << >>
  /\ nextId = 1
  /\ now = Epoch0
  /\ req = [ p \in Procs |-> IdleReq ]
  /\ resp = [ p \in Procs |-> "none" ]
  /\ reqs = 0
  /\ shown = NothingShown
  /\ stats = << >>
  /\ subscribers \in SubscriberSeeds
  /\ posts = << >>
  /\ outbox = << >>
  /\ db = DbServing

NextNews ==
  \/ \E p \in Procs, email \in SubEmails : Subscribe(p, email)
  \/ \E p \in Procs : SaveSubscriber(p)
  \/ \E p \in Procs, ok \in BOOLEAN : Welcome(p, ok)
  \/ \E p \in Procs : SaveResubscribe(p)
  \/ \E p \in Procs, email \in SubEmails : Unsubscribe(p, email)
  \/ \E p \in Procs : SaveUnsubscribe(p)
  \/ Tick

\* Subscribe and unsubscribe requests in any interleaving.
SpecNews == InitNews /\ [][NextNews]_vars

\* ---------------------------------------------------- subscribers: the claims

\* The address a spelling stands for, and the spellings that are well-formed addresses.
Address(e) == IF e = EmailAnnShout THEN EmailAnn ELSE e

WellFormedSpellings == {EmailAnn, EmailAnnShout, EmailBob}

\* The indexes of the records stored for the address of the spelling e.
RecordsOf(e) == { i \in DOMAIN subscribers : subscribers[i].email = Address(e) }

\* Every record but the i-th is in the next state what it is now.
OthersKept(i) ==
  /\ Len(subscribers') = Len(subscribers)
  /\ \A j \in DOMAIN subscribers \ {i} : subscribers'[j] = subscribers[j]

C24_UnsubscribeOutcomes ==
  [][\A p \in Procs :
       /\ \A e \in SubEmails \ {NoEmail} :
            Unsubscribe(p, e) =>
              /\ RecordsOf(e) = {} =>
                   resp'[p] = "404" /\ subscribers' = subscribers /\ req'[p] = IdleReq
              /\ RecordsOf(e) # {} /\ (\A i \in RecordsOf(e) : ~subscribers[i].isActive) =>
                   /\ resp'[p] = "400 Email is already unsubscribed"
                   /\ subscribers' = subscribers
                   /\ req'[p] = IdleReq
              /\ (\E i \in RecordsOf(e) : subscribers[i].isActive) =>
                   req'[p].pc = "unsubscribe" /\ req'[p].id \in RecordsOf(e)
       /\ SaveUnsubscribe(p) =>
            /\ resp'[p] = "200 unsubscribed"
            /\ req[p].at \in Epoch0..now
            /\ subscribers'[req[p].id] =
                 [subscribers[req[p].id] EXCEPT !.isActive = FALSE,
                                                !.unsubscribedAt = req[p].at]
            /\ OthersKept(req[p].id)
    ]_vars

\* Ann has unsubscribed and is kept as an inactive record stamped with the time of the
\* request, while an unsubscribe of an unknown address was answered 404.
C24_Witness ==
  \E p, q \in Procs :
    /\ resp[p] = "200 unsubscribed"
    /\ resp[q] = "404"
    /\ Len(subscribers) = 1
    /\ ~subscribers[1].isActive
    /\ subscribers[1].unsubscribedAt = now
    /\ now > Epoch0

\* C25: no two subscriber records hold the same email, whatever the interleaving; a
\* subscribe request that saves a new record for an address another request has stored
\* meanwhile is answered 400 'Email is already subscribed' and stores nothing.
C25_OneRecordPerEmail ==
  [][/\ \A i, j \in DOMAIN subscribers' :
          subscribers'[i].email = subscribers'[j].email => i = j
     /\ \A p \in Procs :
          SaveSubscriber(p) /\ req[p].email \in WellFormedSpellings
            /\ RecordsOf(req[p].email) # {} =>
            /\ resp'[p] = "400 Email is already subscribed"
            /\ subscribers' = subscribers
    ]_vars

\* Two overlapping subscribe requests for one new address: one was answered 201, the
\* other 400 by the duplicate-key branch, and one record is stored.
C25_Witness ==
  \E p, q \in Procs :
    /\ resp[p] = "201"
    /\ resp[q] = "400 Email is already subscribed"
    /\ Cardinality({ i \in DOMAIN subscribers : subscribers[i].email = EmailAnn }) = 1

\* C29: every subscriber record is active exactly when its unsubscribedAt is null.
C29_ActiveIffNoUnsubscribedAt ==
  \A i \in DOMAIN subscribers :
    subscribers[i].isActive <=> subscribers[i].unsubscribedAt = NoDate

\* A lapsed subscriber has been reactivated while an unsubscribe of the same address,
\* arriving before the reactivation was stored, was answered 400.
C29_Witness ==
  \E p, q \in Procs :
    /\ resp[p] = "200 reactivated"
    /\ resp[q] = "400 Email is already unsubscribed"
    /\ Len(subscribers) = 1
    /\ subscribers[1].isActive

\* ------------------ newsletter posts: the NewsletterPost model, /api/newsletter/send

\* maxlength of title and of subject.
MaxPostTitleLen == 200
MaxSubjectLen == 1500

PostCategories ==
  {"general", "tech-insights", "project-updates", "offers", "announcements"}

\* A field of the body that is absent or empty is falsy.
Given(body, f) == Has(body, f) /\ body[f] # << >>

\* new NewsletterPost({...}) of the send route over the schema's defaults; category
\* defaults to 'general' in the route, scheduledAt decides the status.
NewPost(body) ==
  [ title |-> Trim(body.title),
    subject |-> Trim(body.subject),
    content |-> body.content,
    htmlContent |-> body.htmlContent,
    author |-> AdminId,
    category |-> IF Has(body, "category") THEN body.category ELSE "general",
    scheduledAt |-> IF Has(body, "scheduledAt") THEN body.scheduledAt ELSE NoDate,
    status |-> IF Has(body, "scheduledAt") THEN "scheduled" ELSE "draft",
    sentAt |-> NoDate,
    recipients |-> [total |-> 0, sent |-> 0, failed |-> 0] ]

\* The validators of the schema run by save().
PostValid(d) ==
  /\ d.title # << >> /\ Len(d.title) <= MaxPostTitleLen
  /\ d.subject # << >> /\ Len(d.subject) <= MaxSubjectLen
  /\ d.content # << >>
  /\ d.htmlContent # << >>
  /\ d.author # NoAdmin
  /\ d.category \in PostCategories

\* statics.getActiveSubscribers: find({ isActive: true }).sort({ subscribedAt: -1 }),
\* here the indexes of the records in that order (insertion order among equals).
RECURSIVE NewestFirst(_, _)
NewestFirst(store, S) ==
  IF S = {} THEN << >>
  ELSE LET i == CHOOSE a \in S :
                  \A b \in S : \/ store[a].subscribedAt > store[b].subscribedAt
                               \/ /\ store[a].subscribedAt = store[b].subscribedAt
                                  /\ a <= b
       IN << i >> \o NewestFirst(store, S \ {i})

getActiveSubscribers(store) ==
  LET order == NewestFirst(store, { i \in DOMAIN store : store[i].isActive })
  IN [ k \in DOMAIN order |-> store[order[k]] ]

\* methods.markAsSent, up to its save().
MarkedAsSent(d, recipientStats, t) ==
  [d EXCEPT !.status = "sent", !.sentAt = t, !.recipients = recipientStats]

\* Variant: the loop ends at the first delivery that fails.
AfterAttemptStopsOnFailure(r, ok) ==
  IF ok
  THEN [r EXCEPT !.sentCount = @ + 1, !.next = @ + 1,
                 !.pc = IF r.next = Len(r.activeSubscribers) THEN "send-mark" ELSE @]
  ELSE [r EXCEPT !.failedCount = @ + 1, !.next = @ + 1, !.pc = "send-mark"]

\* One turn of `for (const subscriber of activeSubscribers)`: sentCount++ or, in the
\* catch, failedCount++; after the last subscriber the loop is left.
AfterAttempt(r, ok) ==
  [r EXCEPT !.sentCount = IF ok THEN @ + 1 ELSE @,
            !.failedCount = IF ok THEN @ ELSE @ + 1,
            !.next = @ + 1,
            !.pc = IF r.next = Len(r.activeSubscribers) THEN "send-mark" ELSE @]

\* POST /api/newsletter/send: 400 when title, subject, content or htmlContent is
\* missing; else the post is built and saved (a validation error is answered 500);
\* with scheduledAt the request is answered 201, else it goes on to read the
\* subscribers.
SendNewsletter(p, body) ==
  /\ Free(p) /\ Started
  /\ reqs' = reqs + 1
  /\ IF ~(Given(body, "title") /\ Given(body, "subject") /\ Given(body, "content")
            /\ Given(body, "htmlContent"))
     THEN /\ resp' = [resp EXCEPT ![p] = "400 required"]
          /\ UNCHANGED << req, posts >>
     ELSE IF ~PostValid(NewPost(body))
     THEN /\ resp' = [resp EXCEPT ![p] = "500"]
          /\ UNCHANGED << req, posts >>
     ELSE /\ posts' = Append(posts, NewPost(body))
          /\ IF Has(body, "scheduledAt")
             THEN /\ resp' = [resp EXCEPT ![p] = "201"]
                  /\ UNCHANGED req
             ELSE /\ req' = [req EXCEPT ![p] =
                               [ pc |-> "send-read", post |-> Len(posts) + 1,
                                 activeSubscribers |-> << >>, next |-> 1,
                                 sentCount |-> 0, failedCount |-> 0 ]]
                  /\ resp' = [resp EXCEPT ![p] = "none"]
  /\ UNCHANGED << blogs, nextId, now, shown, stats, subscribers, outbox, db >>

\* const activeSubscribers = await Newsletter.getActiveSubscribers(); 400 when there
\* is none, else the loop starts with both counts at 0.
SendRead(p) ==
  /\ req[p].pc = "send-read"
  /\ IF getActiveSubscribers(subscribers) = << >>
     THEN /\ resp' = [resp EXCEPT ![p] = "400 No active subscribers found"]
          /\ req' = [req EXCEPT ![p] = IdleReq]
     ELSE /\ req' = [req EXCEPT ![p] =
                       [@ EXCEPT !.pc = "send-loop",
                                 !.activeSubscribers = getActiveSubscribers(subscribers)]]
          /\ UNCHANGED resp
  /\ UNCHANGED << blogs, nextId, now, reqs, shown, stats, subscribers, posts, outbox, db >>

\* await sendEmail({ to: subscriber.email, ... }) for the next subscriber of the list;
\* it succeeds or throws.
SendOne(p, ok) ==
  /\ req[p].pc = "send-loop"
  /\ outbox' = Append(outbox, [ to |-> req[p].activeSubscribers[req[p].next].email,
                                post |-> req[p].post, ok |-> ok ])
  /\ req' = [req EXCEPT ![p] = AfterAttempt(@, ok)]
  /\ UNCHANGED << blogs, nextId, now, reqs, resp, shown, stats, subscribers, posts, db >>

\* newsletterPost.markAsSent({ total, sent, failed }) and the answer 200.
MarkAsSent(p) ==
  /\ req[p].pc = "send-mark"
  /\ posts' = [posts EXCEPT ![req[p].post] =
                 MarkedAsSent(@, [ total |-> Len(req[p].activeSubscribers),
                                   sent |-> req[p].sentCount,
                                   failed |-> req[p].failedCount ], now)]
  /\ resp' = [resp EXCEPT ![p] = "200 sent"]
  /\ req' = [req EXCEPT ![p] = IdleReq]
  /\ UNCHANGED << blogs, nextId, now, reqs, shown, stats, subscribers, outbox, db >>

\* Bodies of POST /api/newsletter/send: to send at once, to schedule, without
\* htmlContent, with a category outside the enum.
PostTitle   == << "N", "e", "w", "s" >>
PostSubject == << "H", "i" >>
PostText    == << "t" >>
PostHtml    == << "<", "p", ">" >>

SendBodies ==
  { [title |-> PostTitle, subject |-> PostSubject, content |-> PostText,
     htmlContent |-> PostHtml],
    [title |-> PostTitle, subject |-> PostSubject, content |-> PostText,
     htmlContent |-> PostHtml, scheduledAt |-> Epoch0 + 9],
    [title |-> PostTitle, subject |-> PostSubject, content |-> PostText],
    [title |-> PostTitle, subject |-> PostSubject, content |-> PostText,
     htmlContent |-> PostHtml, category |-> "sports"] }

\* Collections of subscribers left by earlier requests: Ann and Bob active and a third
\* address unsubscribed; Ann alone, unsubscribed.
EmailCy == << "c", "@", "b", ".", "i", "o" >>

SendSeeds ==
  { << NewSubscriber(EmailAnn, Epoch0), NewSubscriber(EmailBob, Epoch0 + 1),
       Unsubscribed(NewSubscriber(EmailCy, Epoch0), Epoch0 + 1) >>,
    << Unsubscribed(NewSubscriber(EmailAnn, Epoch0), Epoch0 + 1) >> }

InitSend ==
  /\ blogs = << >>
  /\ nextId = 1
  /\ now = Epoch0 + 1
  /\ req = [ p \in Procs |-> IdleReq ]
  /\ resp = [ p \in Procs |-> "none" ]
  /\ reqs = 0
  /\ shown = NothingShown
  /\ stats = << >>
  /\ subscribers \in SendSeeds
  /\ posts = << >>
  /\ outbox = << >>
  /\ db = DbServing

NextSend ==
  \/ \E p \in Procs, body \in SendBodies : SendNewsletter(p, body)
  \/ \E p \in Procs : SendRead(p)
  \/ \E p \in Procs, ok \in BOOLEAN : SendOne(p, ok)
  \/ \E p \in Procs : MarkAsSent(p)
  \/ \E p \in Procs, email \in {EmailAnn, EmailBob} : Subscribe(p, email)
  \/ \E p \in Procs : SaveSubscriber(p)
  \/ \E p \in Procs, ok \in BOOLEAN : Welcome(p, ok)
  \/ \E p \in Procs : SaveResubscribe(p)
  \/ \E p \in Procs, email \in {EmailAnn, EmailBob} : Unsubscribe(p, email)
  \/ \E p \in Procs : SaveUnsubscribe(p)

\* Newsletter sends in any interleaving with each other and with subscriptions.
SpecSend == InitSend /\ [][NextSend]_vars

\* ------------------------------------------------ newsletter posts: the claims

\* The deliveries attempted so far for the post of number n, as indexes of outbox.
AttemptsFor(n) == { k \in DOMAIN outbox' : outbox'[k].post = n }

\* The emails of the subscribers that are active now.
ActiveEmails == { subscribers[i].email : i \in { j \in DOMAIN subscribers :
                                                 subscribers[j].isActive } }

\* C26: an immediate send that finds active subscribers works on exactly the
\* subscribers active when it read them, each once; when it finishes, one delivery has
\* been attempted to each of them, failed ones included, and the post is stored with
\* status 'sent', sentAt set, and recipients.sent + recipients.failed =
\* recipients.total = the number of subscribers read.
C26_SendReachesEveryActiveSubscriber ==
  [][\A p \in Procs :
       /\ SendRead(p) /\ ActiveEmails # {} =>
            /\ req'[p].pc = "send-loop"
            /\ Len(req'[p].activeSubscribers) = Cardinality(ActiveEmails)
            /\ { req'[p].activeSubscribers[k].email :
                   k \in DOMAIN req'[p].activeSubscribers } = ActiveEmails
       /\ MarkAsSent(p) =>
            LET r == req[p]
                n == Len(r.activeSubscribers)
                d == posts'[r.post]
            IN /\ resp'[p] = "200 sent"
               /\ d.status = "sent"
               /\ d.sentAt = now /\ d.sentAt # NoDate
               /\ d.recipients.total = n
               /\ d.recipients.sent + d.recipients.failed = n
               /\ d.recipients.sent =
                    Cardinality({ k \in AttemptsFor(r.post) : outbox'[k].ok })
               /\ d.recipients.failed =
                    Cardinality({ k \in AttemptsFor(r.post) : ~outbox'[k].ok })
               /\ \A a \in DOMAIN r.activeSubscribers :
                    Cardinality({ k \in AttemptsFor(r.post) :
                                    outbox'[k].to = r.activeSubscribers[a].email }) = 1
               /\ Cardinality(AttemptsFor(r.post)) = n
    ]_vars

\* A send to two subscribers has finished: the first delivery failed, the second was
\* still made and succeeded, and the post is stored as sent with 1 + 1 = 2 recipients.
C26_Witness ==
  \E n \in DOMAIN posts :
    /\ posts[n].status = "sent"
    /\ posts[n].sentAt # NoDate
    /\ posts[n].recipients = [total |-> 2, sent |-> 1, failed |-> 1]
    /\ \E j, k \in DOMAIN outbox :
         /\ j < k
         /\ outbox[j].post = n /\ ~outbox[j].ok
         /\ outbox[k].post = n /\ outbox[k].ok

\* C30: a send request answered 400 - a required field missing, or no active
\* subscriber for an immediate send - has stored no newsletter post and has sent no
\* email.
C30_RejectedSendStoresNothing ==
  [][\A p \in Procs :
       /\ \A body \in SendBodies :
            SendNewsletter(p, body) /\ resp'[p] = "400 required" =>
              posts' = posts /\ outbox' = outbox
       /\ SendRead(p) /\ resp'[p] = "400 No active subscribers found" =>
            /\ outbox' = outbox
            /\ \A k \in DOMAIN outbox : outbox[k].post # req[p].post
            /\ req[p].post \notin DOMAIN posts'
    ]_vars

\* ------------------------------------------------------------ views: the claim

\* C28: every GET /api/blog/:slug that is answered 200 leaves the stored views of its
\* post one higher than they were before its write, so that n such requests raise
\* views by n.
C28_EachViewCountsOnce ==
  [][\A p \in Procs :
       Write(p) /\ req[p].modified = {"views"} /\ resp'[p] = "200" =>
         blogs'[req[p].doc.id].views = blogs[req[p].doc.id].views + 1
    ]_vars

\* ------------------------------------------------ connectDB (config/database.js)

\* `db` holds the environment (env, and `up`, the URIs at which a server answers), the
\* locals atlasURI, localURI and mongoURI, the URIs passed to mongoose.connect so far,
\* whether the connection handlers are registered, and the exit code (-1 while the
\* process runs).

\* process.env.MONGODB_TEST || 'mongodb://localhost:27017/bahoju-tech'
LocalURI(env) ==
  IF env.MONGODB_TEST # Undefined THEN env.MONGODB_TEST ELSE DefaultLocalURI

\* The environments the process may start in.
DbEnvs == [ MONGODB_URI : {Undefined, "atlas-a"}, MONGODB_TEST : {Undefined, "test-a"} ]

DbServers == {"atlas-a", "test-a", DefaultLocalURI}

\* mongoose.connect(uri) resolves when a server answers at uri; it rejects when none
\* does, and when uri is not a string.
Connects(uri, up) == uri # Undefined /\ uri \in up

\* connectDB up to its first await: the locals are set; with MONGODB_URI set the Atlas
\* connection is tried, else the inner try is passed and mongoose.connect(mongoURI) is
\* called with mongoURI still equal to atlasURI.
ConnectBegin ==
  /\ db.pc = "start"
  /\ db' = [db EXCEPT !.atlasURI = db.env.MONGODB_URI,
                      !.localURI = LocalURI(db.env),
                      !.mongoURI = db.env.MONGODB_URI,
                      !.pc = IF db.env.MONGODB_URI # Undefined THEN "atlas" ELSE "second"]
  /\ UNCHANGED << blogs, nextId, now, req, resp, reqs, shown,
                  stats, subscribers, posts, outbox >>

\* The Atlas attempt ends: the connection is returned, or the catch sets
\* mongoURI = localURI and mongoose.connect(mongoURI) is called.
ConnectAtlas ==
  /\ db.pc = "atlas"
  /\ db' = IF Connects(db.atlasURI, db.up)
           THEN [db EXCEPT !.tried = Append(@, db.atlasURI), !.pc = "connected"]
           ELSE [db EXCEPT !.tried = Append(@, db.atlasURI),
                           !.mongoURI = db.localURI, !.pc = "second"]
  /\ UNCHANGED << blogs, nextId, now, req, resp, reqs, shown,
                  stats, subscribers, posts, outbox >>

\* mongoose.connect(mongoURI) ends: the handlers are registered, or the outer catch
\* logs the error and calls process.exit(1).
ConnectSecond ==
  /\ db.pc = "second"
  /\ db' = IF Connects(db.mongoURI, db.up)
           THEN [db EXCEPT !.tried = Append(@, db.mongoURI), !.pc = "connected",
                           !.handlers = TRUE]
           ELSE [db EXCEPT !.tried = Append(@, db.mongoURI), !.pc = "exited",
                           !.exitCode = 1]
  /\ UNCHANGED << blogs, nextId, now, req, resp, reqs, shown,
                  stats, subscribers, posts, outbox >>

\* SIGINT with the handler registered: the connection is closed and process.exit(0).
Sigint ==
  /\ db.pc = "connected" /\ db.handlers
  /\ db' = [db EXCEPT !.pc = "exited", !.exitCode = 0]
  /\ UNCHANGED << blogs, nextId, now, req, resp, reqs, shown,
                  stats, subscribers, posts, outbox >>

InitDb ==
  /\ blogs = << >>
  /\ nextId = 1
  /\ now = Epoch0
  /\ req = [ p \in Procs |-> IdleReq ]
  /\ resp = [ p \in Procs |-> "none" ]
  /\ reqs = 0
  /\ shown = NothingShown
  /\ stats = << >>
  /\ subscribers = << >>
  /\ posts = << >>
  /\ outbox = << >>
  /\ db \in { [ pc |-> "start", env |-> e, up |-> u, atlasURI |-> Undefined,
                localURI |-> Undefined, mongoURI |-> Undefined, tried |-> << >>,
                handlers |-> FALSE, exitCode |-> -1 ] :
              e \in DbEnvs, u \in SUBSET DbServers }

NextDb == ConnectBegin \/ ConnectAtlas \/ ConnectSecond \/ Sigint

\* The start of the process in every environment.
SpecDb == InitDb /\ [][NextDb]_vars

\* The local fallback URI of the environment the process started in.
FallbackOf(env) ==
  IF env.MONGODB_TEST = Undefined THEN DefaultLocalURI ELSE env.MONGODB_TEST

\* C27: connectDB ends without the Atlas connection only after it has tried the local
\* fallback URI, and the process exits with failure only when that local attempt was
\* the last one made and failed.
C27_LocalFallbackTried ==
  /\ db.pc \in {"connected", "exited"}
       /\ (db.tried = << >> \/ db.tried[Len(db.tried)] # db.env.MONGODB_URI
           \/ db.env.MONGODB_URI = Undefined) =>
       \E k \in DOMAIN db.tried : db.tried[k] = FallbackOf(db.env)
  /\ db.exitCode = 1 =>
       /\ db.tried # << >>
       /\ db.tried[Len(db.tried)] = FallbackOf(db.env)
       /\ FallbackOf(db.env) \notin db.up

====
